---- MODULE Spec2Model ----
(***************************************************************************)
(* hello-edge-tts (Python): the batch synthesis operations of TTSClient    *)
(* (tts_client.py) together with the SSML validation they run per unit     *)
(* (ssml_utils.py).                                                        *)
(*                                                                         *)
(* Indexes are 0-based as in the code; texts is a TLA+ sequence, so the    *)
(* unit with index i is texts[i + 1].                                      *)
(***************************************************************************)
EXTENDS Integers, Sequences, FiniteSets, TLC

(***************************************************************************)
(* Bounds of the model.                                                    *)
(***************************************************************************)
\* the longest input list of a batch call
MaxTexts == 3

\* the concurrency limits tried: 1 .. MaxTexts + 1, so K < N, K = N and K > N occur
ConcurrencyLimits == 1..(MaxTexts + 1)

\* the audio byte strings the remote service may answer with
AudioData == {"audio_a", "audio_b"}

(***************************************************************************)
(* Markup as text.  A unit text is described by whether it is well-formed  *)
(* XML and, if so, by its element structure as written: element names and  *)
(* attributes in document order, the xmlns declaration among them.         *)
(***************************************************************************)
SynthesisNamespace == "http://www.w3.org/2001/10/synthesis"

XmlNamespace == "http://www.w3.org/XML/1998/namespace"

Elem(name, attrs, children) == [name |-> name, attrs |-> attrs, children |-> children]

\* "Hello world": plain text, not an XML document
PlainText == [wellformed |-> FALSE, root |-> Elem("", <<>>, <<>>)]

\* a string that holds a lone surrogate (an undecodable byte of a command-line
\* argument, a JSON escape): not an XML document, and not encodable as UTF-8
LoneSurrogate == [wellformed |-> FALSE, root |-> Elem("\\ud800", <<>>, <<>>)]

\* what create_ssml / SSMLBuilder.build emit for one prosody fragment
ProsodyMarkup ==
    [wellformed |-> TRUE,
     root |-> Elem("speak",
                   << <<"version", "1.0">>, <<"xmlns", SynthesisNamespace>>,
                      <<"xml:lang", "en-US">> >>,
                   << Elem("voice", << <<"name", "en-US-AriaNeural">> >>,
                           << Elem("prosody", << <<"rate", "slow">> >>, <<>>) >>) >>)]

\* hand-written markup without a namespace declaration and with two bad values
BareMarkup ==
    [wellformed |-> TRUE,
     root |-> Elem("speak", << <<"version", "1.0">> >>,
                   << Elem("prosody", << <<"rate", "blurple">> >>, <<>>),
                      Elem("break", << <<"time", "5">> >>, <<>>) >>)]

\* the texts a batch is made of: plain text, and markup as the client builds it
UnitTexts == {PlainText, ProsodyMarkup}

(***************************************************************************)
(* xml.etree.ElementTree.fromstring as the validator sees it: a default    *)
(* namespace in scope is folded into the tag ("{uri}name"), namespace      *)
(* declarations are not attributes, xml:lang becomes "{xml-uri}lang".      *)
(***************************************************************************)
RECURSIVE DeclaredNamespace(_, _, _)
DeclaredNamespace(attrs, k, inherited) ==
    IF k > Len(attrs) THEN inherited
    ELSE IF attrs[k][1] = "xmlns" THEN attrs[k][2]
    ELSE DeclaredNamespace(attrs, k + 1, inherited)

QualifiedTag(name, ns) == IF ns = "" THEN name ELSE "{" \o ns \o "}" \o name

AttribKey(key) == IF key = "xml:lang" THEN "{" \o XmlNamespace \o "}lang" ELSE key

AttribOf(attrs) ==
    LET kept == {k \in 1..Len(attrs) : attrs[k][1] # "xmlns"}
        keys == {AttribKey(attrs[k][1]) : k \in kept}
    IN  [key \in keys |->
            LET k == CHOOSE j \in kept : AttribKey(attrs[j][1]) = key IN attrs[k][2]]

\* character data between the tags: Element.text / Element.tail, never a child
TextNode(data) == Elem("#text", << <<"data", data>> >>, <<>>)

IsText(node) == node.name = "#text"

ElementChildren(nodes) == SelectSeq(nodes, LAMBDA n : ~IsText(n))

RECURSIVE ParseElement(_, _)
ParseElement(e, inherited) ==
    LET ns == DeclaredNamespace(e.attrs, 1, inherited)
        kids == ElementChildren(e.children)
    IN  [tag |-> QualifiedTag(e.name, ns),
         attrib |-> AttribOf(e.attrs),
         children |-> [k \in 1..Len(kids) |-> ParseElement(kids[k], ns)]]

fromstring(ssml) == ParseElement(ssml.root, "")

(***************************************************************************)
(* SSMLValidator (ssml_utils.py).                                          *)
(***************************************************************************)
VALID_PROSODY_RATES == {"x-slow", "slow", "medium", "fast", "x-fast"}

VALID_PROSODY_PITCHES == {"x-low", "low", "medium", "high", "x-high"}

VALID_PROSODY_VOLUMES == {"silent", "x-soft", "soft", "medium", "loud", "x-loud"}

VALID_EMPHASIS_LEVELS == {"strong", "moderate", "reduced"}

VALID_BREAK_STRENGTHS == {"none", "x-weak", "weak", "medium", "strong", "x-strong"}

endswith(s, suffix) ==
    Len(s) >= Len(suffix) /\ SubSeq(s, Len(s) - Len(suffix) + 1, Len(s)) = suffix

Has(element, key) == key \in DOMAIN element.attrib

_validate_prosody(element, errors) ==
    LET e1 == IF Has(element, "rate")
                 /\ ~(element.attrib["rate"] \in VALID_PROSODY_RATES
                      \/ endswith(element.attrib["rate"], "%")
                      \/ endswith(element.attrib["rate"], "Hz"))
              THEN Append(errors, "Invalid prosody rate: " \o element.attrib["rate"])
              ELSE errors
        e2 == IF Has(element, "pitch")
                 /\ ~(element.attrib["pitch"] \in VALID_PROSODY_PITCHES
                      \/ endswith(element.attrib["pitch"], "Hz")
                      \/ endswith(element.attrib["pitch"], "st"))
              THEN Append(e1, "Invalid prosody pitch: " \o element.attrib["pitch"])
              ELSE e1
    IN  IF Has(element, "volume")
           /\ ~(element.attrib["volume"] \in VALID_PROSODY_VOLUMES
                \/ endswith(element.attrib["volume"], "dB"))
        THEN Append(e2, "Invalid prosody volume: " \o element.attrib["volume"])
        ELSE e2

_validate_emphasis(element, errors) ==
    IF Has(element, "level") /\ element.attrib["level"] \notin VALID_EMPHASIS_LEVELS
    THEN Append(errors, "Invalid emphasis level: " \o element.attrib["level"])
    ELSE errors

_validate_break(element, errors) ==
    LET e1 == IF Has(element, "time")
                 /\ ~(endswith(element.attrib["time"], "s")
                      \/ endswith(element.attrib["time"], "ms"))
              THEN Append(errors, "Invalid break time format: " \o element.attrib["time"])
              ELSE errors
    IN  IF Has(element, "strength")
           /\ element.attrib["strength"] \notin VALID_BREAK_STRENGTHS
        THEN Append(e1, "Invalid break strength: " \o element.attrib["strength"])
        ELSE e1

_validate_say_as(element, errors) ==
    IF ~Has(element, "interpret-as")
    THEN Append(errors, "say-as element missing interpret-as attribute")
    ELSE errors

RECURSIVE _validate_element(_, _)
RECURSIVE ValidateChildren(_, _, _)
_validate_element(element, errors) ==
    LET own == CASE element.tag = "prosody" -> _validate_prosody(element, errors)
                 [] element.tag = "emphasis" -> _validate_emphasis(element, errors)
                 [] element.tag = "break" -> _validate_break(element, errors)
                 [] element.tag = "say-as" -> _validate_say_as(element, errors)
                 [] OTHER -> errors
    IN  ValidateChildren(element.children, 1, own)

ValidateChildren(children, k, errors) ==
    IF k > Len(children) THEN errors
    ELSE ValidateChildren(children, k + 1, _validate_element(children[k], errors))

validate(ssml) ==
    IF ~ssml.wellformed THEN <<"XML parsing error">>
    ELSE LET root == fromstring(ssml)
             e1 == IF root.tag # "speak"
                   THEN <<"Root element must be <speak>">> ELSE <<>>
             e2 == IF ~Has(root, "version")
                   THEN Append(e1, "Missing version attribute in <speak> element")
                   ELSE e1
             e3 == IF ~Has(root, "xmlns")
                   THEN Append(e2, "Missing xmlns attribute in <speak> element")
                   ELSE e2
         IN  _validate_element(root, e3)

\* validate_ssml(ssml, raise_on_error=False): the diagnostics, nothing raised
validate_ssml(ssml) == validate(ssml)

(***************************************************************************)
(* SSMLBuilder (ssml_utils.py).  A builder object is the record of its     *)
(* fields voice, lang and elements; a method is an operator from the       *)
(* object (and the arguments) to the object after the call and the value   *)
(* returned.  An optional argument is <<>> for None and <<s>> for the      *)
(* string s.                                                               *)
(***************************************************************************)
None == <<>>

Some(s) == <<s>>

\* the truth value Python gives an Optional[str]: None and "" are false
Truthy(opt) == opt # None /\ opt[1] # ""

\* the positions of the separator in s
SeparatorsIn(s, sep) == {k \in 1..Len(s) : SubSeq(s, k, k) = sep}

\* str.split(sep) for a separator of one character
RECURSIVE split(_, _)
split(s, sep) ==
    IF SeparatorsIn(s, sep) = {} THEN <<s>>
    ELSE LET k == CHOOSE m \in SeparatorsIn(s, sep) : \A o \in SeparatorsIn(s, sep) : m <= o
         IN  <<SubSeq(s, 1, k - 1)>> \o split(SubSeq(s, k + 1, Len(s)), sep)

\* "if len(parts) > 2": a voice id of exactly two segments gets the baseline
_extract_language_strict(voice) ==
    LET parts == split(voice, "-")
    IN  IF Len(parts) > 2 THEN parts[1] \o "-" \o parts[2] ELSE "en-US"

_extract_language(voice) ==
    LET parts == split(voice, "-")
    IN  IF Len(parts) >= 2 THEN parts[1] \o "-" \o parts[2] ELSE "en-US"

\* SSMLBuilder(voice, lang)
SSMLBuilder(voice, lang) ==
    [voice |-> voice,
     lang |-> IF Truthy(lang) THEN lang[1] ELSE _extract_language(voice),
     elements |-> <<>>]

\* what a method call leaves and gives: the object after it, the value returned
Call(self, ret) == [self |-> self, ret |-> ret]

\* self.elements.insert(0, fragment); return self
Inserted(self, fragment) ==
    LET after == [self EXCEPT !.elements = <<fragment>> \o @]
    IN  Call(after, after)

\* self.elements.append(fragment); return self
Appended(self, fragment) ==
    LET after == [self EXCEPT !.elements = Append(@, fragment)]
    IN  Call(after, after)

\* name="value" if the optional value is truthy
Attr(name, opt) == IF Truthy(opt) THEN << <<name, opt[1]>> >> ELSE <<>>

add_text(self, text) == Appended(self, TextNode(text))

add_prosody(self, text, rate, pitch, volume) ==
    Appended(self, Elem("prosody",
                        Attr("rate", rate) \o Attr("pitch", pitch) \o Attr("volume", volume),
                        <<TextNode(text)>>))

add_emphasis(self, text, level) ==
    Appended(self, Elem("emphasis", << <<"level", level>> >>, <<TextNode(text)>>))

add_break(self, time) == Appended(self, Elem("break", << <<"time", time>> >>, <<>>))

add_say_as(self, text, interpret_as, format) ==
    Appended(self, Elem("say-as",
                        << <<"interpret-as", interpret_as>> >> \o Attr("format", format),
                        <<TextNode(text)>>))

add_phoneme(self, text, alphabet, ph) ==
    Appended(self, Elem("phoneme", << <<"alphabet", alphabet>>, <<"ph", ph>> >>,
                        <<TextNode(text)>>))

add_sub(self, text, alias) ==
    Appended(self, Elem("sub", << <<"alias", alias>> >>, <<TextNode(text)>>))

\* the arguments are pasted into the markup as they are: a "<" or "&" in
\* character data or in an attribute value, or a quote in an attribute value,
\* leaves text that is not well-formed XML
Contains(s, chars) == \E k \in 1..Len(s) : SubSeq(s, k, k) \in chars

WellFormedText(s) == ~Contains(s, {"<", "&"})

WellFormedValue(s) == ~Contains(s, {"<", "&", "\""})

RECURSIVE WellFormedNode(_)
WellFormedNode(node) ==
    IF IsText(node) THEN WellFormedText(node.attrs[1][2])
    ELSE /\ \A k \in 1..Len(node.attrs) : WellFormedValue(node.attrs[k][2])
         /\ \A k \in 1..Len(node.children) : WellFormedNode(node.children[k])

\* the document as build() writes it: speak, voice, the fragments in order
Document(self) ==
    Elem("speak",
         << <<"version", "1.0">>, <<"xmlns", SynthesisNamespace>>,
            <<"xml:lang", self.lang>> >>,
         << Elem("voice", << <<"name", self.voice>> >>, self.elements) >>)

\* build() that empties self.elements once the string is made
buildConsumes(self) ==
    Call([self EXCEPT !.elements = <<>>],
         [wellformed |-> /\ WellFormedValue(self.lang)
                         /\ WellFormedValue(self.voice)
                         /\ \A k \in 1..Len(self.elements) : WellFormedNode(self.elements[k]),
          root |-> Document(self)])

\* build() that derives self.lang from the voice again
buildRederives(self) ==
    LET derived == [self EXCEPT !.lang = _extract_language(self.voice)]
    IN  Call(derived,
             [wellformed |-> /\ WellFormedValue(derived.lang)
                             /\ WellFormedValue(derived.voice)
                             /\ \A k \in 1..Len(derived.elements) :
                                    WellFormedNode(derived.elements[k]),
              root |-> Document(derived)])

\* build() that appends the closing tags to self.elements
buildAppendsClosing(self) ==
    Call([self EXCEPT !.elements = Append(@, TextNode("</voice></speak>"))],
         [wellformed |-> /\ WellFormedValue(self.lang)
                         /\ WellFormedValue(self.voice)
                         /\ \A k \in 1..Len(self.elements) : WellFormedNode(self.elements[k]),
          root |-> Document(self)])

build(self) ==
    Call(self,
         [wellformed |-> /\ WellFormedValue(self.lang)
                         /\ WellFormedValue(self.voice)
                         /\ \A k \in 1..Len(self.elements) : WellFormedNode(self.elements[k]),
          root |-> Document(self)])

(***************************************************************************)
(* TTSClient.create_ssml, create_emphasis_ssml and create_break_ssml       *)
(* (tts_client.py): the markup is written out as one f-string, the         *)
(* arguments pasted in as they are.                                        *)
(***************************************************************************)
\* the speak and voice elements the three methods write around the content;
\* xml:lang is the first two segments of the voice if it holds a "-"
Speak(voice, content) ==
    LET parts == split(voice, "-")
        lang == IF Contains(voice, {"-"}) THEN parts[1] \o "-" \o parts[2] ELSE "en-US"
    IN  [wellformed |-> /\ WellFormedValue(voice)
                        /\ \A k \in 1..Len(content) : WellFormedNode(content[k]),
         root |-> Elem("speak",
                       << <<"version", "1.0">>, <<"xmlns", SynthesisNamespace>>,
                          <<"xml:lang", lang>> >>,
                       << Elem("voice", << <<"name", voice>> >>, content) >>)]

create_ssml(text, voice, rate, pitch, volume) ==
    Speak(voice, << Elem("prosody",
                         << <<"rate", rate>>, <<"pitch", pitch>>, <<"volume", volume>> >>,
                         <<TextNode(text)>>) >>)

create_emphasis_ssml(text, voice, emphasis_level) ==
    Speak(voice, << Elem("emphasis", << <<"level", emphasis_level>> >>, <<TextNode(text)>>) >>)

\* '<break time="..."/>'.join(text_parts)
create_break_ssml(text_parts, voice, break_time) ==
    Speak(voice, [k \in 1..(2 * Len(text_parts) - 1) |->
                    IF k % 2 = 1 THEN TextNode(text_parts[(k + 1) \div 2])
                    ELSE Elem("break", << <<"time", break_time>> >>, <<>>)])

(***************************************************************************)
(* TTSConfig and ConfigManager (config_manager.py).  A dictionary, and the *)
(* keyword arguments of a constructor call, is a function from the keys    *)
(* given to their values; a TTSConfig is the record of its validated       *)
(* fields.  A call gives a TTSConfig or raises: Outcome.                   *)
(***************************************************************************)
\* the fields __post_init__ checks, with the defaults of the dataclass
Fields == {"default_voice", "max_retries", "timeout", "batch_size", "max_concurrent"}

Defaults ==
    [default_voice |-> "en-US-AriaNeural", max_retries |-> 3, timeout |-> 30000,
     batch_size |-> 5, max_concurrent |-> 3]

Returned(value) == [config |-> Some(value), raised |-> "none"]

Raised(exception) == [config |-> None, raised |-> exception]

\* "if self.timeout < 0": a timeout of 0 passes
__post_init__allows_zero(self) ==
    IF self.max_retries < 0 THEN "ValueError"
    ELSE IF self.timeout < 0 THEN "ValueError"
    ELSE IF self.default_voice = "" THEN "ValueError"
    ELSE IF self.batch_size <= 0 THEN "ValueError"
    ELSE IF self.max_concurrent <= 0 THEN "ValueError"
    ELSE "none"

\* TTSConfig.__post_init__: the exception it raises ("none": it returns)
__post_init__(self) ==
    IF self.max_retries < 0 THEN "ValueError"
    ELSE IF self.timeout <= 0 THEN "ValueError"
    ELSE IF self.default_voice = "" THEN "ValueError"
    ELSE IF self.batch_size <= 0 THEN "ValueError"
    ELSE IF self.max_concurrent <= 0 THEN "ValueError"
    ELSE "none"

\* TTSConfig(**kwargs), the keywords being fields: the fields not given take
\* their defaults; __post_init__ runs on the result
TTSConfig(kwargs) ==
    LET self == [k \in Fields |-> IF k \in DOMAIN kwargs THEN kwargs[k] ELSE Defaults[k]]
    IN  IF __post_init__(self) # "none" THEN Raised(__post_init__(self))
        ELSE Returned(self)

\* TTSConfig.from_dict: unknown keys are filtered out
from_dict(config_dict) ==
    TTSConfig([k \in DOMAIN config_dict \cap Fields |-> config_dict[k]])

\* what a path holds: nothing, text that does not parse, or a dictionary
Absent == [kind |-> "absent", data |-> <<>>]

Malformed == [kind |-> "malformed", data |-> <<>>]

Holding(config_dict) == [kind |-> "dict", data |-> config_dict]

\* from_json_file and from_yaml_file: open, parse, from_dict
from_parsed_file(files, file_path) ==
    IF files[file_path].kind = "absent" THEN Raised("FileNotFoundError")
    ELSE IF files[file_path].kind = "malformed" THEN Raised("ValueError")
    ELSE from_dict(files[file_path].data)

\* Path(file_path).suffix
suffix(file_path) ==
    LET name == split(file_path, "/")[Len(split(file_path, "/"))]
        parts == split(name, ".")
    IN  IF Len(parts) = 1 \/ (Len(parts) = 2 /\ parts[1] = "") THEN ""
        ELSE "." \o parts[Len(parts)]

\* TTSConfig.from_file
from_file(files, file_path) ==
    IF suffix(file_path) \in {".json", ".yaml", ".yml"}
    THEN from_parsed_file(files, file_path)
    ELSE Raised("ValueError")

DEFAULT_CONFIG_PATHS ==
    <<"./tts_config.json", "./tts_config.yaml", "~/.tts/config.json", "~/.tts/config.yaml">>

\* the default paths that exist, in the order they are tried
ExistingDefaults(files) ==
    SelectSeq(DEFAULT_CONFIG_PATHS, LAMBDA path : files[path].kind # "absent")

\* ConfigManager.load_config
load_config(files, config_path) ==
    IF Truthy(config_path) THEN from_file(files, config_path[1])
    ELSE IF ExistingDefaults(files) # <<>> THEN from_file(files, ExistingDefaults(files)[1])
    ELSE TTSConfig(<<>>)

(***************************************************************************)
(* The voice queries of TTSClient (tts_client.py).  A query is an operator *)
(* from the cache and the answer of the remote catalog (None: the request  *)
(* failed) to the cache after the call and what the call gave.             *)
(***************************************************************************)
\* Voice(name=voice["ShortName"], display_name=voice["FriendlyName"], ...)
Voice(voice) ==
    [name |-> voice.ShortName, display_name |-> voice.FriendlyName,
     locale |-> voice.Locale, gender |-> voice.Gender]

VoiceList(voices_data) == [k \in 1..Len(voices_data) |-> Voice(voices_data[k])]

\* "if not self._voices_cache": an empty list that was cached is fetched again
CacheMissWhenEmpty(cache) == cache = None \/ cache[1] = <<>>

\* "if self._voices_cache is None"
CacheMiss(cache) == cache = None

\* what a query gives: the cache after it, whether the remote catalog was
\* asked, whether TTSError was raised, the list returned
Query(cache, contacted, failed, value) ==
    [cache |-> cache, contacted |-> contacted, raised |-> failed, value |-> value]

list_voices(cache, answer) ==
    IF CacheMiss(cache)
    THEN IF answer = None THEN Query(cache, TRUE, TRUE, <<>>)
         ELSE Query(Some(VoiceList(answer[1])), TRUE, FALSE, VoiceList(answer[1]))
    ELSE Query(cache, FALSE, FALSE, cache[1])

startswith(s, prefix) == Len(s) >= Len(prefix) /\ SubSeq(s, 1, Len(prefix)) = prefix

\* the filter of get_voices_by_language: "en" and "en-US" both select en-US
InLanguage(voice, language) ==
    startswith(voice.locale, language) \/ split(voice.locale, "-")[1] = language

get_voices_by_language(cache, answer, language) ==
    LET all_voices == list_voices(cache, answer)
    IN  IF all_voices.raised THEN all_voices
        ELSE [all_voices EXCEPT
                !.value = SelectSeq(@, LAMBDA voice : InLanguage(voice, language))]

clear_voice_cache(cache) == None

(***************************************************************************)
(* TTSClient state of one batch call (tts_client.py).                      *)
(***************************************************************************)
VARIABLES
    texts,          \* the input list of the batch call
    use_ssml,       \* the SSML flag of the batch call
    max_concurrent, \* the concurrency limit K (batch_synthesize_concurrent only)
    mode,           \* which method was called: "sequential" or "concurrent"
    pc,             \* where the batch coroutine is
    i,              \* batch_synthesize_text: the loop index
    results,        \* batch_synthesize_text: the list built so far; the returned list
    error,          \* the TTSError raised to the caller of the batch call
    semaphore,      \* the asyncio.Semaphore: free slots and the queue of waiters
    taskPc,         \* per task of gather: where synthesize_with_semaphore is
    taskRet,        \* per task: the (index, audio_data) tuple it returned
    taskExc,        \* per task: the TTSError it raised
    outer,          \* the future gather returned
    calls,          \* per index: synthesize_text calls made
    sent,           \* per index: requests streamed to the remote service
    validated,      \* per index: runs of the validator
    audio,          \* per index: the audio the remote service answered with
    callLog,        \* the indexes in the order their synthesize_text calls started
    finishLog       \* the indexes in the order their synthesize_text calls ended

batchVars == <<texts, use_ssml, max_concurrent, mode, pc, i, results, error, semaphore,
               taskPc, taskRet, taskExc, outer, calls, sent, validated, audio, callLog,
               finishLog>>

(***************************************************************************)
(* One SSMLBuilder in use (ssml_utils.py), and a second one constructed    *)
(* with the same arguments that is given the same add_* calls.             *)
(***************************************************************************)
VARIABLES
    doc,            \* the SSMLBuilder object: voice, lang, elements
    twin,           \* the second SSMLBuilder object
    args,           \* the arguments the constructor was called with
    history,        \* the add_* calls made so far, in order: the method, the arguments,
                    \* whether the call returned the document itself
    outputs,        \* the strings the first and the latest build() call returned
    report          \* the diagnostics SSMLValidator.validate returned for the latest

builderVars == <<doc, twin, args, history, outputs, report>>

(***************************************************************************)
(* Obtaining a TTSConfig (config_manager.py).                              *)
(***************************************************************************)
VARIABLES
    disk,           \* the configuration files: what each path holds
    request,        \* the last attempt to obtain a TTSConfig: the way and the values
    config,         \* the TTSConfig that attempt returned
    raised          \* the exception that attempt raised

configVars == <<disk, request, config, raised>>

(***************************************************************************)
(* The voice cache of a TTSClient (tts_client.py).                         *)
(***************************************************************************)
VARIABLES
    _voices_cache,  \* TTSClient._voices_cache: None or the list fetched
    catalog,        \* the voices the remote catalog holds now
    voiceLog        \* the calls made on the client, in order, with their outcomes

cacheVars == <<_voices_cache, catalog, voiceLog>>

(***************************************************************************)
(* One call of SSMLValidator.validate on markup written by hand            *)
(* (ssml_utils.py).                                                        *)
(***************************************************************************)
VARIABLES
    markup,         \* the string passed to validate
    verdict         \* None before the call; then what the call raised and returned

validatorVars == <<markup, verdict>>

(***************************************************************************)
(* One AudioPlayer and the calls made on it (audio_player.py).             *)
(***************************************************************************)
VARIABLES
    player,         \* the AudioPlayer: preferred_backend and _available_backends
    broken,         \* the backends whose playback raises on this machine
    storage,        \* the names of the files that exist
    playLog         \* the calls made on the player, in order, with their outcomes

playerVars == <<player, broken, storage, playLog>>

\* the variables of the other parts while a batch call is modelled: no
\* builder call, no configuration attempt and no voice query is made
BuilderUnused ==
    /\ doc = SSMLBuilder("", None)
    /\ twin = SSMLBuilder("", None)
    /\ args = [voice |-> "", lang |-> None]
    /\ history = <<>>
    /\ outputs = <<>>
    /\ report = None

ConfigUnused ==
    /\ disk = <<>>
    /\ request = [via |-> "none", path |-> None, values |-> <<>>]
    /\ config = None
    /\ raised = "none"

ValidatorUnused ==
    /\ markup = PlainText
    /\ verdict = None

CacheUnused ==
    /\ _voices_cache = None
    /\ catalog = <<>>
    /\ voiceLog = <<>>

PlayerUnused ==
    /\ player = [preferred_backend |-> None, _available_backends |-> <<>>]
    /\ broken = {}
    /\ storage = {}
    /\ playLog = <<>>

vars == <<batchVars, builderVars, configVars, cacheVars, validatorVars, playerVars>>

N == Len(texts)

Indexes == 0..(N - 1)

NoAudio == "none"

NoError == [item |-> 0, cause |-> "none", diagnostics |-> <<>>]

\* "item {index}": the item number of the message is not made 1-based
ItemNumberZeroBased(index) == index

\* the 1-based item number both batch methods put in their error message
ItemNumber(index) == index + 1

\* TTSError("Failed to synthesize ... item {index+1}: {cause}")
TTSError(index, cause, diagnostics) ==
    [item |-> ItemNumber(index), cause |-> cause, diagnostics |-> diagnostics]

\* "if not errors: raise": the test of the diagnostics is inverted
_validate_ssml_inverted(ssml) == validate_ssml(ssml) = <<>>

\* _validate_ssml(text) raises: the validator returned at least one diagnostic
_validate_ssml_raises(ssml) == validate_ssml(ssml) # <<>>

\* synthesize_text fails before any request is made
FailsBeforeDispatch(index) == use_ssml /\ _validate_ssml_raises(texts[index + 1])

PendingFuture == [state |-> "pending", result |-> <<>>, exception |-> NoError]

Init ==
    /\ texts \in UNION {[1..n -> UnitTexts] : n \in 0..MaxTexts}
    /\ use_ssml \in BOOLEAN
    /\ mode \in {"sequential", "concurrent"}
    /\ max_concurrent \in ConcurrencyLimits
    /\ mode = "sequential" => max_concurrent = 1
    /\ pc = "call"
    /\ i = 0
    /\ results = <<>>
    /\ error = NoError
    /\ semaphore = [value |-> 0, waiters |-> <<>>]
    /\ taskPc = [t \in Indexes |-> "none"]
    /\ taskRet = [t \in Indexes |-> <<t, NoAudio>>]
    /\ taskExc = [t \in Indexes |-> NoError]
    /\ outer = PendingFuture
    /\ calls = [t \in Indexes |-> 0]
    /\ sent = [t \in Indexes |-> 0]
    /\ validated = [t \in Indexes |-> 0]
    /\ audio = [t \in Indexes |-> NoAudio]
    /\ callLog = <<>>
    /\ finishLog = <<>>
    /\ BuilderUnused
    /\ ConfigUnused
    /\ CacheUnused
    /\ ValidatorUnused
    /\ PlayerUnused

(***************************************************************************)
(* synthesize_text, seen from a batch method: the synchronous part up to   *)
(* the first suspension (validation, then the request), and the bookkeeping*)
(* of the calls made.                                                      *)
(***************************************************************************)
\* the call for `index` starts: the validator runs only under the SSML flag
CallStarted(index) ==
    /\ calls' = [calls EXCEPT ![index] = @ + 1]
    /\ callLog' = Append(callLog, index)
    /\ validated' = IF use_ssml THEN [validated EXCEPT ![index] = @ + 1] ELSE validated

\* edge_tts.Communicate(text, voice).stream() is entered
Dispatched(index) == sent' = [sent EXCEPT ![index] = @ + 1]

ValidationError(index) ==
    TTSError(index, "validation", validate_ssml(texts[index + 1]))

SynthesisError(index) == TTSError(index, "synthesis", <<>>)

\* the call for `index` ends (it returned audio or raised) after those in log
CallEnded(log, index) == finishLog' = Append(log, index)

(***************************************************************************)
(* batch_synthesize_text: the sequential loop.                             *)
(***************************************************************************)
\* enumerate(texts) starts at index 0
FirstIndex == 0

\* the loop at index idx with the list res built so far (log: the calls ended
\* so far), up to its next suspension: return after the last unit, raise on a
\* validation failure, otherwise wait for the request of unit idx
SeqIterate(idx, res, log) ==
    IF idx >= N
    THEN /\ pc' = "returned"
         /\ i' = idx
         /\ results' = res
         /\ finishLog' = log
         /\ UNCHANGED <<error, calls, callLog, validated, sent>>
    ELSE /\ CallStarted(idx)
         /\ i' = idx
         /\ IF FailsBeforeDispatch(idx)
            THEN /\ pc' = "raised"
                 /\ error' = ValidationError(idx)
                 /\ results' = <<>>
                 /\ CallEnded(log, idx)
                 /\ UNCHANGED sent
            ELSE /\ pc' = "await_synthesize"
                 /\ results' = res
                 /\ Dispatched(idx)
                 /\ finishLog' = log
                 /\ UNCHANGED error

\* the caller enters batch_synthesize_text
SeqCall ==
    /\ pc = "call"
    /\ mode = "sequential"
    /\ SeqIterate(FirstIndex, <<>>, finishLog)
    /\ UNCHANGED <<texts, use_ssml, max_concurrent, mode, semaphore, taskPc, taskRet,
                   taskExc, outer, audio>>

\* the request of unit i answers with audio: results.append, next iteration
SeqSynthesized ==
    /\ pc = "await_synthesize"
    /\ \E data \in AudioData :
        /\ audio' = [audio EXCEPT ![i] = data]
        /\ SeqIterate(i + 1, Append(results, data), Append(finishLog, i))
    /\ UNCHANGED <<texts, use_ssml, max_concurrent, mode, semaphore, taskPc, taskRet,
                   taskExc, outer>>

\* "except: continue": the failed unit is skipped and the loop goes on
SeqFailedSkips ==
    /\ pc = "await_synthesize"
    /\ SeqIterate(i + 1, results, Append(finishLog, i))
    /\ UNCHANGED <<texts, use_ssml, max_concurrent, mode, semaphore, taskPc, taskRet,
                   taskExc, outer, audio>>

\* the request of unit i fails (or yields no audio): the except clause raises
SeqFailed ==
    /\ pc = "await_synthesize"
    /\ pc' = "raised"
    /\ error' = SynthesisError(i)
    /\ results' = <<>>
    /\ CallEnded(finishLog, i)
    /\ UNCHANGED <<texts, use_ssml, max_concurrent, mode, i, semaphore, taskPc, taskRet,
                   taskExc, outer, calls, sent, validated, audio, callLog>>

(***************************************************************************)
(* asyncio.Semaphore as batch_synthesize_concurrent uses it.               *)
(***************************************************************************)
\* asyncio.Semaphore(max_concurrent + 1): one slot too many
SemaphoreOneMore(limit) == [value |-> limit + 1, waiters |-> <<>>]

\* asyncio.Semaphore(): the limit is not passed, the default of one slot applies
SemaphoreDefault(limit) == [value |-> 1, waiters |-> <<>>]

\* semaphore = asyncio.Semaphore(max_concurrent)
SemaphoreInit(limit) == [value |-> limit, waiters |-> <<>>]

\* Semaphore.locked(): no free slot, or somebody is already queued
Locked(sem) == sem.value = 0 \/ sem.waiters # <<>>

\* the first queued task whose wake-up is still outstanding gets the slot
WakeUpNext(sem, pcs) ==
    LET asleep == {k \in 1..Len(sem.waiters) : pcs[sem.waiters[k]] = "waiting"}
    IN  IF asleep = {} THEN [sem |-> sem, pcs |-> pcs]
        ELSE LET k == CHOOSE m \in asleep : \A o \in asleep : m <= o
             IN  [sem |-> [sem EXCEPT !.value = @ - 1],
                  pcs |-> [pcs EXCEPT ![sem.waiters[k]] = "woken"]]

\* release() that only counts the slot back and wakes nobody
ReleaseWakesNobody(sem, pcs) == [sem |-> [sem EXCEPT !.value = @ + 1], pcs |-> pcs]

\* leaving "async with semaphore": Semaphore.release()
Release(sem, pcs) == WakeUpNext([sem EXCEPT !.value = @ + 1], pcs)

RemoveWaiter(waiters, t) == SelectSeq(waiters, LAMBDA w : w # t)

(***************************************************************************)
(* asyncio.gather without return_exceptions.                       *)
(***************************************************************************)
Finished(pcs) == {t \in DOMAIN pcs : pcs[t] \in {"done", "failed"}}

\* asyncio.wait in place of gather: it raises ValueError for an empty set
gatherRejectsEmpty(count) ==
    IF count = 0
    THEN [state |-> "exception", result |-> <<>>,
          exception |-> [item |-> 0, cause |-> "ValueError", diagnostics |-> <<>>]]
    ELSE PendingFuture

\* the future gather returns: with no awaitables it is already resolved to []
gather(count) ==
    IF count = 0 THEN [state |-> "result", result |-> <<>>, exception |-> NoError]
    ELSE PendingFuture

\* a done callback that overwrites an exception already set: the last failure wins
DoneCallbackLastWins(out, pcs, rets, exc) ==
    IF exc # NoError
    THEN [state |-> "exception", result |-> <<>>, exception |-> exc]
    ELSE IF out.state # "pending" THEN out
    ELSE IF Finished(pcs) = DOMAIN pcs
    THEN [state |-> "result",
          result |-> [k \in 1..Cardinality(DOMAIN pcs) |-> rets[k - 1]],
          exception |-> NoError]
    ELSE out

\* gather(..., return_exceptions=True): a failure is one more result
DoneCallbackCollects(out, pcs, rets, exc) ==
    IF out.state # "pending" THEN out
    ELSE IF Finished(pcs) = DOMAIN pcs
    THEN [state |-> "result",
          result |-> [k \in 1..Cardinality(DOMAIN pcs) |-> rets[k - 1]],
          exception |-> NoError]
    ELSE out

\* gather's done callback for one task: the first exception settles the outer
\* future; the last task to finish resolves it to the results in argument order
DoneCallback(out, pcs, rets, exc) ==
    IF out.state # "pending" THEN out
    ELSE IF exc # NoError
    THEN [state |-> "exception", result |-> <<>>, exception |-> exc]
    ELSE IF Finished(pcs) = DOMAIN pcs
    THEN [state |-> "result",
          result |-> [k \in 1..Cardinality(DOMAIN pcs) |-> rets[k - 1]],
          exception |-> NoError]
    ELSE out

(***************************************************************************)
(* results.sort(key=lambda x: x[0]) and the final list comprehension.      *)
(***************************************************************************)
RECURSIVE InsertByIndex(_, _)
InsertByIndex(sorted, x) ==
    IF sorted = <<>> THEN <<x>>
    ELSE IF x[1] < Head(sorted)[1] THEN <<x>> \o sorted
    ELSE <<Head(sorted)>> \o InsertByIndex(Tail(sorted), x)

\* results.sort(key=lambda x: x[0], reverse=True)
SortByIndexReversed(pairs) ==
    [k \in 1..Len(pairs) |->
        LET rank == Len(pairs) + 1 - k
        IN  CHOOSE x \in {pairs[m] : m \in 1..Len(pairs)} :
                Cardinality({m \in 1..Len(pairs) : pairs[m][1] <= x[1]}) = rank]

RECURSIVE SortByIndex(_)
SortByIndex(pairs) ==
    IF pairs = <<>> THEN <<>>
    ELSE InsertByIndex(SortByIndex(SubSeq(pairs, 1, Len(pairs) - 1)), pairs[Len(pairs)])

AudioOf(pairs) == [k \in 1..Len(pairs) |-> pairs[k][2]]

(***************************************************************************)
(* batch_synthesize_concurrent.                                            *)
(***************************************************************************)
\* the coroutine reads the loop variable when it runs: every task sees the last index
TaskIndexLateBound(t) == N - 1

\* the arguments of the coroutine made for position t of enumerate(texts)
TaskIndex(t) == t

\* the caller resumes from "await asyncio.gather" with the outer future
\* settled: the exception is raised, or the results are sorted and returned
GatherSettled(out) ==
    IF out.state = "exception"
    THEN /\ pc' = "raised"
         /\ error' = out.exception
         /\ results' = <<>>
    ELSE /\ pc' = "returned"
         /\ error' = error
         /\ results' = AudioOf(SortByIndex(out.result))

\* the caller enters batch_synthesize_concurrent: semaphore, coroutines, gather
ConcCall ==
    /\ pc = "call"
    /\ mode = "concurrent"
    /\ semaphore' = SemaphoreInit(max_concurrent)
    /\ taskPc' = [t \in Indexes |-> "created"]
    /\ outer' = gather(N)
    /\ IF outer'.state = "pending"
       THEN pc' = "await_gather" /\ UNCHANGED <<error, results>>
       ELSE GatherSettled(outer')
    /\ UNCHANGED <<texts, use_ssml, max_concurrent, mode, i, taskRet, taskExc, calls,
                   sent, validated, audio, callLog, finishLog>>

\* every task of gather has run its first step.  create_task queues the first
\* steps in argument order before the caller suspends, so the event loop runs
\* them all before any callback queued later: a done callback, the caller's
\* wake-up, the completion of a request
AllStarted == \A t \in Indexes : taskPc[t] # "created"

\* the caller is woken with the outcome of gather
GatherResume ==
    /\ pc = "await_gather"
    /\ AllStarted
    /\ outer.state # "pending"
    /\ GatherSettled(outer)
    /\ UNCHANGED <<texts, use_ssml, max_concurrent, mode, i, semaphore, taskPc, taskRet,
                   taskExc, outer, calls, sent, validated, audio, callLog, finishLog>>

\* the raise leaves without "async with": the slot of the failed task is kept
TaskRaisesKeepsSlot(t, sem, pcs, exc) ==
    LET failed == [pcs EXCEPT ![t] = "failed"]
    IN  /\ semaphore' = sem
        /\ taskPc' = failed
        /\ taskExc' = [taskExc EXCEPT ![t] = exc]
        /\ outer' = DoneCallback(outer, failed, taskRet, exc)
        /\ CallEnded(finishLog, TaskIndex(t))
        /\ UNCHANGED taskRet

\* task t raises TTSError inside "async with": the slot is released, the task
\* ends with the exception and gather's callback sees it
TaskRaises(t, sem, pcs, exc) ==
    LET rel == Release(sem, [pcs EXCEPT ![t] = "failed"])
    IN  /\ semaphore' = rel.sem
        /\ taskPc' = rel.pcs
        /\ taskExc' = [taskExc EXCEPT ![t] = exc]
        /\ outer' = DoneCallback(outer, rel.pcs, taskRet, exc)
        /\ CallEnded(finishLog, TaskIndex(t))
        /\ UNCHANGED taskRet

\* task t holds a slot (sem, pcs are the state after the acquisition) and runs
\* the body of "async with" up to its suspension inside synthesize_text
TaskBody(t, sem, pcs) ==
    /\ CallStarted(TaskIndex(t))
    /\ IF FailsBeforeDispatch(TaskIndex(t))
       THEN /\ TaskRaises(t, sem, pcs, ValidationError(TaskIndex(t)))
            /\ UNCHANGED sent
       ELSE /\ Dispatched(TaskIndex(t))
            /\ semaphore' = sem
            /\ taskPc' = [pcs EXCEPT ![t] = "running"]
            /\ UNCHANGED <<taskRet, taskExc, outer, finishLog>>

\* the first step of task t (the tasks of gather start in argument order):
\* acquire a free slot and run on, or queue up behind the semaphore
TaskFirstStep(t) ==
    /\ taskPc[t] = "created"
    /\ \A u \in Indexes : u < t => taskPc[u] # "created"
    /\ IF Locked(semaphore)
       THEN /\ semaphore' = [semaphore EXCEPT !.waiters = Append(@, t)]
            /\ taskPc' = [taskPc EXCEPT ![t] = "waiting"]
            /\ UNCHANGED <<taskRet, taskExc, outer, calls, sent, validated, callLog,
                           finishLog>>
       ELSE TaskBody(t, [semaphore EXCEPT !.value = @ - 1], taskPc)
    /\ UNCHANGED <<texts, use_ssml, max_concurrent, mode, pc, i, results, error, audio>>

\* a queued task that was handed a slot resumes inside acquire(): it leaves the
\* queue, passes a slot that is still free on to the next waiter, and runs on
TaskResume(t) ==
    /\ taskPc[t] = "woken"
    /\ AllStarted
    /\ LET left == [semaphore EXCEPT !.waiters = RemoveWaiter(@, t)]
           next == IF left.value > 0 THEN WakeUpNext(left, taskPc)
                   ELSE [sem |-> left, pcs |-> taskPc]
       IN  TaskBody(t, next.sem, next.pcs)
    /\ UNCHANGED <<texts, use_ssml, max_concurrent, mode, pc, i, results, error, audio>>

\* the request of task t answers with audio: the task returns (index, audio_data)
TaskSynthesized(t) ==
    /\ taskPc[t] = "running"
    /\ AllStarted
    /\ \E data \in AudioData :
        LET rel == Release(semaphore, [taskPc EXCEPT ![t] = "done"])
            rets == [taskRet EXCEPT ![t] = <<TaskIndex(t), data>>]
        IN  /\ audio' = [audio EXCEPT ![TaskIndex(t)] = data]
            /\ semaphore' = rel.sem
            /\ taskPc' = rel.pcs
            /\ taskRet' = rets
            /\ outer' = DoneCallback(outer, rel.pcs, rets, NoError)
            /\ CallEnded(finishLog, TaskIndex(t))
    /\ UNCHANGED <<texts, use_ssml, max_concurrent, mode, pc, i, results, error, taskExc,
                   calls, sent, validated, callLog>>

\* the request of task t fails (or yields no audio): the except clause raises
TaskFailed(t) ==
    /\ taskPc[t] = "running"
    /\ AllStarted
    /\ TaskRaises(t, semaphore, taskPc, SynthesisError(TaskIndex(t)))
    /\ UNCHANGED <<texts, use_ssml, max_concurrent, mode, pc, i, results, error, audio,
                   calls, sent, validated, callLog>>

Next ==
    \/ SeqCall /\ UNCHANGED <<builderVars, configVars, cacheVars, validatorVars, playerVars>>
    \/ SeqSynthesized /\ UNCHANGED <<builderVars, configVars, cacheVars, validatorVars, playerVars>>
    \/ SeqFailed /\ UNCHANGED <<builderVars, configVars, cacheVars, validatorVars, playerVars>>
    \/ ConcCall /\ UNCHANGED <<builderVars, configVars, cacheVars, validatorVars, playerVars>>
    \/ GatherResume /\ UNCHANGED <<builderVars, configVars, cacheVars, validatorVars, playerVars>>
    \/ \E t \in Indexes : TaskFirstStep(t) /\ UNCHANGED <<builderVars, configVars, cacheVars, validatorVars, playerVars>>
    \/ \E t \in Indexes : TaskResume(t) /\ UNCHANGED <<builderVars, configVars, cacheVars, validatorVars, playerVars>>
    \/ \E t \in Indexes : TaskSynthesized(t) /\ UNCHANGED <<builderVars, configVars, cacheVars, validatorVars, playerVars>>
    \/ \E t \in Indexes : TaskFailed(t) /\ UNCHANGED <<builderVars, configVars, cacheVars, validatorVars, playerVars>>

Spec == Init /\ [][Next]_vars

\* the event loop runs every callback that is ready: the caller's entry and
\* wake-up, the first step of each task, the wake-up of a task handed a slot
EventLoopFair ==
    /\ WF_batchVars(ConcCall)
    /\ WF_batchVars(GatherResume)
    /\ \A t \in 0..(MaxTexts - 1) :
        /\ WF_batchVars(t \in Indexes /\ TaskFirstStep(t))
        /\ WF_batchVars(t \in Indexes /\ TaskResume(t))
        \* every request made to the remote service ends, with audio or with
        \* a failure
        /\ WF_batchVars(t \in Indexes /\ (TaskSynthesized(t) \/ TaskFailed(t)))

\* the longest input list of a batch call that is followed to its end
MaxLiveTexts == 2

LiveInit == Init /\ N <= MaxLiveTexts

\* a batch call on a fair event loop with a service that always answers
SpecLive == LiveInit /\ [][Next]_vars /\ EventLoopFair

(***************************************************************************)
(* Cancellation of a batch_synthesize_concurrent call: Task.cancel() on    *)
(* the task that awaits gather.  While the future of gather is pending,    *)
(* cancel() is passed on to every unfinished child task, and each child    *)
(* gets CancelledError at its next step; "except Exception" does not catch *)
(* it.  Once the future of gather is settled, cancel() only marks the      *)
(* caller, which gets CancelledError when it resumes.                      *)
(***************************************************************************)
CancelledError == [item |-> 0, cause |-> "CancelledError", diagnostics |-> <<>>]

\* Task.cancel() on a child: its next step is the CancelledError, raised where
\* the child is suspended (a finished child is left alone)
CancelRequested(state) ==
    CASE state = "created" -> "cancelCreated"
      [] state = "waiting" -> "cancelWaiting"
      [] state = "woken"   -> "cancelWoken"
      [] state = "running" -> "cancelRunning"
      [] OTHER -> state

\* the children whose CancelledError is still to be delivered
CancelPending ==
    {t \in Indexes :
        taskPc[t] \in {"cancelCreated", "cancelWaiting", "cancelWoken", "cancelRunning"}}

\* the caller's task is cancelled, once, while it awaits gather
Cancel ==
    /\ pc = "await_gather"
    /\ \A t \in Indexes : t \notin CancelPending /\ taskPc[t] # "cancelled"
    /\ IF outer.state = "pending"
       THEN /\ taskPc' = [t \in Indexes |-> CancelRequested(taskPc[t])]
            /\ UNCHANGED pc
       ELSE /\ pc' = "must_cancel"
            /\ UNCHANGED taskPc
    /\ UNCHANGED <<texts, use_ssml, max_concurrent, mode, i, results, error, semaphore,
                   taskRet, taskExc, outer, calls, sent, validated, audio, callLog,
                   finishLog>>

\* child t gets its CancelledError: before its first step nothing was taken;
\* in acquire() it leaves the queue, and gives back a slot already handed to
\* it; in synthesize_text the call ends and "async with" releases the slot.
\* gather's callback settles the outer future with the first cancelled child
TaskCancelled(t) ==
    /\ t \in CancelPending
    /\ LET ended == [taskPc EXCEPT ![t] = "cancelled"]
           left == [semaphore EXCEPT !.waiters = RemoveWaiter(@, t)]
           rel == IF taskPc[t] \in {"cancelWoken", "cancelRunning"}
                  THEN Release(left, ended)
                  ELSE [sem |-> left, pcs |-> ended]
       IN  /\ semaphore' = rel.sem
           /\ taskPc' = rel.pcs
           /\ finishLog' = IF taskPc[t] = "cancelRunning"
                           THEN Append(finishLog, TaskIndex(t)) ELSE finishLog
    /\ outer' = IF outer.state = "pending"
                THEN [state |-> "exception", result |-> <<>>, exception |-> CancelledError]
                ELSE outer
    /\ UNCHANGED <<texts, use_ssml, max_concurrent, mode, pc, i, results, error, taskRet,
                   taskExc, calls, sent, validated, audio, callLog>>

\* the marked caller resumes from "await gather": CancelledError is raised in
\* place of the outcome the future of gather holds
CancelResume ==
    /\ pc = "must_cancel"
    /\ AllStarted
    /\ pc' = "raised"
    /\ error' = CancelledError
    /\ results' = <<>>
    /\ UNCHANGED <<texts, use_ssml, max_concurrent, mode, i, semaphore, taskPc, taskRet,
                   taskExc, outer, calls, sent, validated, audio, callLog, finishLog>>

\* a concurrent batch call that may be cancelled once.  The wake-ups of the
\* cancelled children are queued before the caller's, so they run first
CancelNext ==
    \/ ConcCall /\ UNCHANGED <<builderVars, configVars, cacheVars, validatorVars, playerVars>>
    \/ Cancel /\ UNCHANGED <<builderVars, configVars, cacheVars, validatorVars, playerVars>>
    \/ CancelResume /\ UNCHANGED <<builderVars, configVars, cacheVars, validatorVars, playerVars>>
    \/ /\ CancelPending = {}
       /\ GatherResume
       /\ UNCHANGED <<builderVars, configVars, cacheVars, validatorVars, playerVars>>
    \/ \E t \in Indexes : TaskCancelled(t) /\ UNCHANGED <<builderVars, configVars, cacheVars, validatorVars, playerVars>>
    \/ \E t \in Indexes : TaskFirstStep(t) /\ UNCHANGED <<builderVars, configVars, cacheVars, validatorVars, playerVars>>
    \/ \E t \in Indexes : TaskResume(t) /\ UNCHANGED <<builderVars, configVars, cacheVars, validatorVars, playerVars>>
    \/ \E t \in Indexes : TaskSynthesized(t) /\ UNCHANGED <<builderVars, configVars, cacheVars, validatorVars, playerVars>>
    \/ \E t \in Indexes : TaskFailed(t) /\ UNCHANGED <<builderVars, configVars, cacheVars, validatorVars, playerVars>>

CancelInit == Init /\ mode = "concurrent"

SpecCancel == CancelInit /\ [][CancelNext]_vars

(***************************************************************************)
(* Vocabulary of the properties.                                           *)
(***************************************************************************)
\* the batch call is over for its caller
BatchOver == pc \in {"returned", "raised"}

\* the units whose synthesize_text call has ended / ended in a failure
EndedUnits == {finishLog[k] : k \in 1..Len(finishLog)}

FailedUnits == {u \in EndedUnits : audio[u] = NoAudio}

\* synthesize_text calls started and not yet ended
Outstanding == Len(callLog) - Len(finishLog)

\* the unit whose failure came first in time (-1: none has failed)
FirstFailed ==
    IF FailedUnits = {} THEN -1
    ELSE LET first == CHOOSE k \in 1..Len(finishLog) :
                          /\ finishLog[k] \in FailedUnits
                          /\ \A m \in 1..(k - 1) : finishLog[m] \notin FailedUnits
         IN  finishLog[first]

\* the failing unit with the lowest index (-1: none has failed)
LowestFailed ==
    IF FailedUnits = {} THEN -1
    ELSE CHOOSE u \in FailedUnits : \A v \in FailedUnits : u <= v

\* nothing of the batch is running any more: the caller has its outcome and, in
\* the concurrent method, every task has ended
AllOver == BatchOver /\ (mode = "concurrent" => Finished(taskPc) = Indexes)

\* the returned list holds, at the position of unit u, the audio answered for u
InReturned(u) ==
    /\ pc = "returned"
    /\ u + 1 <= Len(results)
    /\ audio[u] \in AudioData
    /\ results[u + 1] = audio[u]

\* the error raised to the caller is the failure of unit u
Propagated(u) == pc = "raised" /\ error # NoError /\ error.item = u + 1

(***************************************************************************)
(* C1.  A successful batch_synthesize_concurrent with 1 <= K <= N returns  *)
(* a list of length N whose element i is the audio answered by the call    *)
(* made for texts[i], whatever the order in which the calls completed.     *)
(***************************************************************************)
C1_ResultsInInputOrder ==
    (mode = "concurrent" /\ max_concurrent \in 1..N /\ pc = "returned") =>
        /\ Len(results) = N
        /\ \A u \in Indexes : audio[u] \in AudioData /\ results[u + 1] = audio[u]

\* three units under K = 2, completed in the order 1, 0, 2 with different audio
C1_Witness ==
    /\ mode = "concurrent" /\ pc = "returned"
    /\ N = 3 /\ max_concurrent = 2
    /\ finishLog = <<1, 0, 2>>
    /\ audio[0] # audio[1]
    /\ results = <<audio[0], audio[1], audio[2]>>

(***************************************************************************)
(* C2.  In every state of a batch_synthesize_concurrent run with limit K,  *)
(* at most K synthesize_text calls have started and not yet finished.      *)
(***************************************************************************)
C2_AtMostKOutstanding ==
    mode = "concurrent" =>
        /\ Outstanding <= max_concurrent
        /\ Cardinality({t \in Indexes : taskPc[t] = "running"}) = Outstanding

\* the limit is reached while another unit is queued behind the semaphore
C2_Witness ==
    /\ mode = "concurrent"
    /\ max_concurrent = 2 /\ N = 3
    /\ Outstanding = max_concurrent
    /\ taskPc[2] = "waiting"

(***************************************************************************)
(* C3, as claimed.  If the call for unit j fails and no call for a unit    *)
(* below j does, the batch call fails with an error that references j,     *)
(* whatever the units above j do and in whatever order the calls end.      *)
(* Read once nothing of the batch is running any more, so that the set of  *)
(* failed units is final.                                                  *)
(***************************************************************************)
C3_ErrorNamesLowestFailed ==
    (AllOver /\ FailedUnits # {}) => Propagated(LowestFailed)

(***************************************************************************)
(* C3, amended.  If some call fails the batch call fails.  The error of    *)
(* the sequential method references the lowest failing index j; the error  *)
(* of the concurrent method references the unit whose failure came first   *)
(* in time, which is j whenever no unit above j fails before j does.       *)
(***************************************************************************)
C3_ErrorNamesFirstFailure ==
    /\ (AllOver /\ FailedUnits # {}) => pc = "raised"
    /\ pc = "raised" => FailedUnits # {} /\ Propagated(FirstFailed)
    /\ (pc = "raised" /\ mode = "sequential") => Propagated(LowestFailed)

\* units 0 and 2 both fail, unit 2 first: the error names item 3, not item 1
C3_Witness ==
    /\ mode = "concurrent" /\ pc = "raised" /\ AllOver
    /\ N = 3
    /\ FailedUnits = {0, 2}
    /\ FirstFailed = 2
    /\ error.item = 3

(***************************************************************************)
(* C4, as claimed.  Once the batch call has returned or raised, every unit *)
(* has produced exactly one of: a result included in the returned list, a  *)
(* failure propagated to the caller.                                       *)
(***************************************************************************)
C4_EveryUnitResultOrFailure ==
    BatchOver => \A u \in Indexes : InReturned(u) # Propagated(u)

(***************************************************************************)
(* C4, amended.  When the batch call returns, every unit has produced      *)
(* exactly one result, which is in the returned list, and no failure is    *)
(* propagated.  When it raises, the failure of exactly one unit is         *)
(* propagated, that unit's call did fail, and no result is returned: the   *)
(* other units yield neither.  No unit ever yields both.                   *)
(***************************************************************************)
C4_ResultsOrOneFailure ==
    /\ pc = "returned" =>
          /\ error = NoError
          /\ \A u \in Indexes : InReturned(u) /\ ~Propagated(u)
    /\ pc = "raised" =>
          /\ results = <<>>
          /\ \E u \in FailedUnits :
                /\ Propagated(u)
                /\ \A v \in Indexes : Propagated(v) => v = u
    /\ \A u \in Indexes : ~(InReturned(u) /\ Propagated(u))

\* the sequential batch raised for unit 1 after unit 0 had answered with audio:
\* unit 0 is in no returned list and its call did not fail
C4_Witness ==
    /\ mode = "sequential" /\ pc = "raised"
    /\ N = 2
    /\ audio[0] \in AudioData
    /\ Propagated(1)
    /\ ~InReturned(0) /\ ~Propagated(0)

(***************************************************************************)
(* C5.  A batch call ends in one of two ways: it returns the complete      *)
(* list, of the input's length and in input order, or it raises a single   *)
(* error that identifies the first offending unit (the first unit to       *)
(* report a failure).  It never returns a shorter list, never skips a      *)
(* failed unit and never returns results together with an error.           *)
(***************************************************************************)
C5_CompleteListOrSingleError ==
    /\ pc \in {"call", "await_synthesize", "await_gather", "returned", "raised"}
    /\ pc = "returned" =>
          /\ error = NoError
          /\ FailedUnits = {}
          /\ Len(results) = N
          /\ \A u \in Indexes : results[u + 1] = audio[u] /\ audio[u] \in AudioData
    /\ pc = "raised" =>
          /\ results = <<>>
          /\ error # NoError
          /\ error.item = FirstFailed + 1
    /\ ~BatchOver => results \in {<<>>, [k \in 1..i |-> audio[k - 1]]} /\ error = NoError

\* a concurrent batch raised although two of its three units answered with audio
C5_Witness ==
    /\ mode = "concurrent" /\ pc = "raised" /\ AllOver
    /\ N = 3
    /\ FailedUnits = {1}
    /\ error.item = 2
    /\ results = <<>>

(***************************************************************************)
(* C6.  For an empty input list both batch methods return an empty list    *)
(* and make no call to the synthesis capability, for every K >= 1.         *)
(***************************************************************************)
C6_EmptyInput ==
    N = 0 =>
        /\ pc \in {"call", "returned"}
        /\ results = <<>>
        /\ error = NoError
        /\ callLog = <<>>
        /\ finishLog = <<>>

\* the concurrent method has returned [] for no texts under a limit above one
C6_Witness ==
    /\ N = 0
    /\ mode = "concurrent" /\ max_concurrent > 1
    /\ pc = "returned"
    /\ results = <<>>

(***************************************************************************)
(* C7, as claimed.  With the SSML flag set, a unit whose markup yields a   *)
(* diagnostic is never sent to the remote service, and once the batch call *)
(* is over it has failed with an error carrying that unit's index and      *)
(* diagnostics and has returned nothing; with the flag unset the validator *)
(* never runs.                                                             *)
(***************************************************************************)
C7_ErrorCarriesEveryInvalidUnit ==
    /\ use_ssml =>
          \A u \in Indexes :
              validate_ssml(texts[u + 1]) # <<>> =>
                  /\ sent[u] = 0
                  /\ BatchOver =>
                        /\ Propagated(u)
                        /\ error.diagnostics = validate_ssml(texts[u + 1])
                        /\ results = <<>>
    /\ ~use_ssml => \A u \in Indexes : validated[u] = 0

(***************************************************************************)
(* C7, amended.  With the SSML flag set, a unit whose markup yields a      *)
(* diagnostic is never sent to the remote service and the batch call never *)
(* returns results: it fails, and its error carries the index and the      *)
(* diagnostics of that unit when that unit is the first one to fail.  With *)
(* the flag unset the validator never runs.                                *)
(***************************************************************************)
C7_InvalidUnitFailsBatch ==
    /\ use_ssml =>
          \A u \in Indexes :
              validate_ssml(texts[u + 1]) # <<>> =>
                  /\ sent[u] = 0
                  /\ pc # "returned"
                  /\ BatchOver => results = <<>>
                  /\ (BatchOver /\ FirstFailed = u) =>
                        /\ Propagated(u)
                        /\ error.cause = "validation"
                        /\ error.diagnostics = validate_ssml(texts[u + 1])
    /\ ~use_ssml => \A u \in Indexes : validated[u] = 0

\* two units of markup under the SSML flag: the batch failed with the two
\* diagnostics of unit 0, and neither unit was sent
C7_Witness ==
    /\ use_ssml /\ pc = "raised"
    /\ N = 2
    /\ texts[1] = ProsodyMarkup
    /\ error.item = 1
    /\ Len(error.diagnostics) = 2
    /\ sent[0] = 0 /\ sent[1] = 0
    /\ validated[0] = 1

(***************************************************************************)
(* C8.  During one batch call the synthesis capability is invoked at most  *)
(* once per input index; no unit is retried or dispatched again, also      *)
(* after another unit has failed.                                          *)
(***************************************************************************)
C8_AtMostOneCallPerUnit ==
    /\ \A u \in Indexes : calls[u] <= 1 /\ sent[u] <= calls[u]
    /\ \A k, m \in 1..Len(callLog) : callLog[k] = callLog[m] => k = m
    /\ \A u \in Indexes : calls[u] = Cardinality({k \in 1..Len(callLog) : callLog[k] = u})

\* unit 0 failed first; units 1 and 2 then ran to their end, each called once
C8_Witness ==
    /\ mode = "concurrent" /\ pc = "raised" /\ AllOver
    /\ N = 3
    /\ FirstFailed = 0
    /\ audio[1] \in AudioData /\ audio[2] \in AudioData
    /\ \A u \in Indexes : calls[u] = 1

(***************************************************************************)
(* C9.  With a limit K above the number N of units the concurrent method   *)
(* behaves as with K = N.  The limit acts only through the semaphore's     *)
(* lock test when a task acquires, so the runs coincide step by step when  *)
(* that test answers as it would for a semaphore of N slots with the same  *)
(* holders; and no more than N slots are ever held, no task ever queues.   *)
(***************************************************************************)
SlotsHeld == max_concurrent - semaphore.value

C9_LimitAboveCountAsCount ==
    (mode = "concurrent" /\ max_concurrent > N /\ pc # "call") =>
        /\ SlotsHeld \in 0..N
        /\ SlotsHeld = Cardinality({t \in Indexes : taskPc[t] \in {"running", "woken"}})
        /\ semaphore.waiters = <<>>
        /\ \A t \in Indexes : taskPc[t] \notin {"waiting", "woken"}
        /\ (\E t \in Indexes : taskPc[t] = "created") =>
              (Locked(semaphore) <=> Locked([semaphore EXCEPT !.value = N - SlotsHeld]))

\* K = N + 1 and all N units hold a slot at once
C9_Witness ==
    /\ mode = "concurrent"
    /\ N = 3 /\ max_concurrent = N + 1
    /\ SlotsHeld = N
    /\ \A t \in Indexes : taskPc[t] = "running"

(***************************************************************************)
(* C10.  The sequential method keeps the batch contract with limit 1: at   *)
(* most one call is outstanding, the calls are issued in ascending index   *)
(* order, the call for i + 1 starts only after the call for i has ended    *)
(* with audio, and after the first failing unit no further unit is called. *)
(***************************************************************************)
C10_SequentialOneAtATime ==
    mode = "sequential" =>
        /\ Outstanding \in {0, 1}
        /\ \A k \in 1..Len(callLog) : callLog[k] = k - 1
        /\ \A k \in 1..(Len(callLog) - 1) :
              /\ finishLog[k] = k - 1
              /\ audio[k - 1] \in AudioData
        /\ \A u \in FailedUnits :
              /\ Len(callLog) = u + 1
              /\ pc = "raised"
              /\ \A v \in Indexes : v > u => calls[v] = 0

\* unit 0 answered, unit 1 failed, unit 2 was never called
C10_Witness ==
    /\ mode = "sequential" /\ pc = "raised"
    /\ N = 3 /\ ~use_ssml
    /\ callLog = <<0, 1>>
    /\ finishLog = <<0, 1>>
    /\ audio[0] \in AudioData
    /\ FailedUnits = {1}
    /\ calls[2] = 0

(***************************************************************************)
(* C11.  When batch_synthesize_concurrent returns or raises to its caller, *)
(* no task of the batch is still inside synthesize_text, waiting for a     *)
(* slot, woken with a slot, or not yet started.                            *)
(***************************************************************************)
UnfinishedTasks == {t \in Indexes : taskPc[t] \in {"created", "waiting", "woken", "running"}}

C11_NothingLeftWhenCallEnds ==
    (mode = "concurrent" /\ BatchOver) => (UnfinishedTasks = {} /\ Outstanding = 0)

(***************************************************************************)
(* C20.  While the semaphore of batch_synthesize_concurrent exists, its    *)
(* free slots lie in 0..K and free slots plus the tasks holding a slot (in *)
(* their synthesize_text call, or woken with the slot handed over) make K; *)
(* a task that has ended, with audio or with a failure, holds none, so all *)
(* K slots are free once every task has ended.                             *)
(***************************************************************************)
SlotHolders == {t \in Indexes : taskPc[t] \in {"running", "woken"}}

C20_SlotsConserved ==
    (mode = "concurrent" /\ pc # "call") =>
        /\ semaphore.value \in 0..max_concurrent
        /\ semaphore.value + Cardinality(SlotHolders) = max_concurrent
        /\ Finished(taskPc) = Indexes => semaphore.value = max_concurrent

\* the slot of a failed unit is handed on: under K = 1 a unit with audio,
\* then a failed unit, and the third unit runs with the only slot
C20_Witness ==
    /\ mode = "concurrent" /\ max_concurrent = 1 /\ N = 3
    /\ taskPc[0] = "done" /\ taskPc[1] = "failed" /\ taskPc[2] = "running"
    /\ semaphore.value = 0

(***************************************************************************)
(* C21.  On a fair event loop and with every request ending, a call of     *)
(* batch_synthesize_concurrent returns or raises, and every task queued    *)
(* behind the semaphore gets past the acquisition: it runs its             *)
(* synthesize_text call and ends.  No task stays queued.                   *)
(***************************************************************************)
C21_EveryWaiterGetsASlot ==
    /\ (mode = "concurrent") ~> BatchOver
    /\ \A t \in 0..(MaxTexts - 1) :
           (t \in Indexes /\ taskPc[t] = "waiting")
               ~> (t \in Indexes /\ taskPc[t] \in {"running", "done", "failed"})

\* K = 1 and two units: the call raised for unit 0 while unit 1 was queued,
\* and unit 1 has still got the slot and its audio
C21_Witness ==
    /\ mode = "concurrent" /\ max_concurrent = 1 /\ N = 2
    /\ pc = "raised" /\ error.item = 1
    /\ taskPc[0] = "failed" /\ taskPc[1] = "done"
    /\ semaphore.waiters = <<>>

(***************************************************************************)
(* C22.  When a cancelled call of batch_synthesize_concurrent has ended    *)
(* with CancelledError, every task of the batch has ended (none is queued, *)
(* woken or inside synthesize_text), no synthesize_text call is            *)
(* outstanding and all K slots of the semaphore are free.                  *)
(***************************************************************************)
C22_CancellationReachesEveryUnit ==
    (pc = "raised" /\ error = CancelledError) =>
        /\ \A t \in Indexes : taskPc[t] \in {"done", "failed", "cancelled"}
        /\ Outstanding = 0
        /\ semaphore.value = max_concurrent

(***************************************************************************)
(* The builder in use: a document is constructed, fragments are added,     *)
(* build() is called at any time and as often as wanted, and the validator *)
(* is run on the string the latest build() returned.                       *)
(***************************************************************************)
\* the most add_* calls made on one document
MaxFragments == 2

\* the arguments the constructor is called with: voice ids of three, two and
\* one segment; no language, the empty string, a language of its own
ConstructorCalls ==
    { <<"en-US-AriaNeural", None>>, <<"de-DE", None>>, <<"x", None>>,
      <<"x", Some("")>>, <<"en-US-AriaNeural", Some("fr-FR")>> }

\* the arguments each add_* method is called with
AddCalls ==
    [add_text |-> { <<"hello">> },
     add_prosody |-> { <<"hello", Some("slow"), None, None>>,
                       <<"hello", Some("blurple"), None, None>>,
                       <<"hello", None, Some("high"), Some("loud")>>,
                       <<"R&D", Some("fast"), None, None>> },
     add_emphasis |-> { <<"hello", "strong">> },
     add_break |-> { <<"1s">>, <<"5">> },
     add_say_as |-> { <<"2024-05-01", "date", Some("ymd")>> },
     add_phoneme |-> { <<"tomato", "ipa", "t@meItoU">> },
     add_sub |-> { <<"W3C", "World Wide Web Consortium">> }]

\* no batch call is made while the builder is modelled
BatchUnused ==
    /\ texts = <<>>
    /\ use_ssml = FALSE
    /\ mode = "sequential"
    /\ max_concurrent = 1
    /\ pc = "call"
    /\ i = 0
    /\ results = <<>>
    /\ error = NoError
    /\ semaphore = [value |-> 0, waiters |-> <<>>]
    /\ taskPc = <<>>
    /\ taskRet = <<>>
    /\ taskExc = <<>>
    /\ outer = PendingFuture
    /\ calls = <<>>
    /\ sent = <<>>
    /\ validated = <<>>
    /\ audio = <<>>
    /\ callLog = <<>>
    /\ finishLog = <<>>

BuilderInit ==
    /\ \E a \in ConstructorCalls :
        /\ args = [voice |-> a[1], lang |-> a[2]]
        /\ doc = SSMLBuilder(a[1], a[2])
        /\ twin = SSMLBuilder(a[1], a[2])
    /\ history = <<>>
    /\ outputs = <<>>
    /\ report = None
    /\ BatchUnused
    /\ ConfigUnused
    /\ CacheUnused
    /\ ValidatorUnused
    /\ PlayerUnused

\* one add_* call made on the document and, with the same arguments, on the twin
Added(op, arguments, call, twinCall) ==
    /\ Len(history) < MaxFragments
    /\ doc' = call.self
    /\ twin' = twinCall.self
    /\ history' = Append(history, [op |-> op, args |-> arguments,
                                   chained |-> call.ret = call.self])
    /\ UNCHANGED <<args, outputs, report>>

AddText ==
    \E a \in AddCalls.add_text :
        Added("add_text", a, add_text(doc, a[1]), add_text(twin, a[1]))

AddProsody ==
    \E a \in AddCalls.add_prosody :
        Added("add_prosody", a, add_prosody(doc, a[1], a[2], a[3], a[4]),
              add_prosody(twin, a[1], a[2], a[3], a[4]))

AddEmphasis ==
    \E a \in AddCalls.add_emphasis :
        Added("add_emphasis", a, add_emphasis(doc, a[1], a[2]),
              add_emphasis(twin, a[1], a[2]))

AddBreak ==
    \E a \in AddCalls.add_break :
        Added("add_break", a, add_break(doc, a[1]), add_break(twin, a[1]))

AddSayAs ==
    \E a \in AddCalls.add_say_as :
        Added("add_say_as", a, add_say_as(doc, a[1], a[2], a[3]),
              add_say_as(twin, a[1], a[2], a[3]))

AddPhoneme ==
    \E a \in AddCalls.add_phoneme :
        Added("add_phoneme", a, add_phoneme(doc, a[1], a[2], a[3]),
              add_phoneme(twin, a[1], a[2], a[3]))

AddSub ==
    \E a \in AddCalls.add_sub :
        Added("add_sub", a, add_sub(doc, a[1], a[2]), add_sub(twin, a[1], a[2]))

\* the strings kept of the build() calls: the first one and the latest one,
\* each with the number of add_* calls made before it
Kept(outs, out) == IF outs = <<>> THEN <<out>> ELSE <<outs[1], out>>

Latest(outs) == outs[Len(outs)]

\* build() on the document
Build ==
    /\ LET call == build(doc)
       IN  /\ doc' = call.self
           /\ outputs' = Kept(outputs, [at |-> Len(history), text |-> call.ret])
    /\ report' = None
    /\ UNCHANGED <<twin, args, history>>

\* SSMLValidator.validate on the string the latest build() returned
Validate ==
    /\ outputs # <<>>
    /\ report = None
    /\ report' = Some(validate(Latest(outputs).text))
    /\ UNCHANGED <<doc, twin, args, history, outputs>>

BuilderNext ==
    \/ AddText /\ UNCHANGED <<batchVars, configVars, cacheVars, validatorVars, playerVars>>
    \/ AddProsody /\ UNCHANGED <<batchVars, configVars, cacheVars, validatorVars, playerVars>>
    \/ AddEmphasis /\ UNCHANGED <<batchVars, configVars, cacheVars, validatorVars, playerVars>>
    \/ AddBreak /\ UNCHANGED <<batchVars, configVars, cacheVars, validatorVars, playerVars>>
    \/ AddSayAs /\ UNCHANGED <<batchVars, configVars, cacheVars, validatorVars, playerVars>>
    \/ AddPhoneme /\ UNCHANGED <<batchVars, configVars, cacheVars, validatorVars, playerVars>>
    \/ AddSub /\ UNCHANGED <<batchVars, configVars, cacheVars, validatorVars, playerVars>>
    \/ Build /\ UNCHANGED <<batchVars, configVars, cacheVars, validatorVars, playerVars>>
    \/ Validate /\ UNCHANGED <<batchVars, configVars, cacheVars, validatorVars, playerVars>>

SpecBuilder == BuilderInit /\ [][BuilderNext]_vars

(***************************************************************************)
(* Vocabulary of the builder properties.                                   *)
(***************************************************************************)
\* the add_* calls made before the latest build()
BuiltHistory == SubSeq(history, 1, Latest(outputs).at)

\* the latest build() has been validated
Validated == outputs # <<>> /\ report # None

\* the diagnostic mentions the value: the value is a substring of it
Mentions(diagnostic, value) ==
    \E a \in 1..Len(diagnostic) :
        /\ a + Len(value) - 1 <= Len(diagnostic)
        /\ SubSeq(diagnostic, a, a + Len(value) - 1) = value

\* the calls the round trip is claimed for
RoundTripCall(call) ==
    \/ /\ call.op = "add_prosody"
       /\ call.args[2] \in {Some("slow"), Some("fast"), Some("x-slow")}
       /\ call.args[3] = None /\ call.args[4] = None
    \/ /\ call.op = "add_emphasis"
       /\ call.args[2] \in {"strong", "moderate", "reduced"}
    \/ /\ call.op = "add_break"
       /\ endswith(call.args[1], "s")

\* among the calls there is one of the method with the value at the position
HasCall(made, op, position, value) ==
    \E k \in 1..Len(made) : made[k].op = op /\ made[k].args[position] = value

(***************************************************************************)
(* C12.  Validator round trip: a document built only from add_prosody with *)
(* rate slow, fast or x-slow, add_emphasis with level strong, moderate or  *)
(* reduced and add_break with a time ending in "s", in any number and      *)
(* order, validates with zero diagnostics.                                 *)
(***************************************************************************)
C12_RoundTripValidatesClean ==
    (Validated /\ \A k \in 1..Len(BuiltHistory) : RoundTripCall(BuiltHistory[k])) =>
        report[1] = <<>>

(***************************************************************************)
(* C13.  Validator rejects: the diagnostics for a built document with a    *)
(* prosody fragment of rate "blurple" include one that mentions "blurple", *)
(* and those for a built document with a break fragment of time "5"        *)
(* include one about that break time.                                      *)
(***************************************************************************)
C13_BadValuesAreReported ==
    Validated =>
        /\ HasCall(BuiltHistory, "add_prosody", 2, Some("blurple")) =>
              \E k \in 1..Len(report[1]) : Mentions(report[1][k], "blurple")
        /\ HasCall(BuiltHistory, "add_break", 1, "5") =>
              \E k \in 1..Len(report[1]) :
                  Mentions(report[1][k], "break time") /\ Mentions(report[1][k], "5")

(***************************************************************************)
(* C14.  A freshly constructed SSMLBuilder: with no language passed, lang  *)
(* is the first two hyphen-delimited segments of the voice id joined by    *)
(* "-", and "en-US" if the voice id has fewer than two segments; with a    *)
(* language passed, lang is that language.                                 *)
(***************************************************************************)
Fresh == history = <<>> /\ outputs = <<>>

FirstTwoSegments(voice) ==
    IF Len(split(voice, "-")) >= 2
    THEN split(voice, "-")[1] \o "-" \o split(voice, "-")[2]
    ELSE "en-US"

C14_LanguagePassedOrDerived ==
    Fresh =>
        IF args.lang = None THEN doc.lang = FirstTwoSegments(args.voice)
        ELSE doc.lang = args.lang[1]

(***************************************************************************)
(* C14, amended.  The language passed is used if it is a non-empty string; *)
(* with no language or the empty string passed, lang is derived from the   *)
(* voice id as above.                                                      *)
(***************************************************************************)
C14_NonEmptyLanguageOrDerived ==
    Fresh =>
        /\ doc.voice = args.voice
        /\ IF args.lang = None \/ args.lang = Some("")
           THEN doc.lang = FirstTwoSegments(args.voice)
           ELSE doc.lang = args.lang[1]

\* a voice id of exactly two segments and no language: both segments are kept
C14_Witness ==
    /\ Fresh
    /\ args = [voice |-> "de-DE", lang |-> None]
    /\ doc.lang = "de-DE"

(***************************************************************************)
(* C15.  build() is deterministic and depends only on the accumulated      *)
(* state: a document constructed with the same arguments and given the     *)
(* same add_* calls builds to the string the latest build() returned, and  *)
(* two build() calls with no add_* call between them return the same       *)
(* string.                                                                 *)
(***************************************************************************)
C15_BuildDeterministic ==
    /\ build(twin).ret = build(doc).ret
    /\ (outputs # <<>> /\ Latest(outputs).at = Len(history)) =>
           Latest(outputs).text = build(twin).ret
    /\ (Len(outputs) = 2 /\ outputs[1].at = outputs[2].at) =>
           outputs[1].text = outputs[2].text

\* two fragments added, then build() called twice
C15_Witness ==
    /\ Len(history) = 2
    /\ Len(outputs) = 2
    /\ outputs[1].at = 2 /\ outputs[2].at = 2
    /\ outputs[2].text = build(twin).ret

(***************************************************************************)
(* C16.  No add_text, add_prosody, add_emphasis, add_break, add_say_as,    *)
(* add_phoneme, add_sub or build call changes the lang or the voice of the *)
(* document.                                                               *)
(***************************************************************************)
C16_LanguageAndVoiceFixed ==
    [][doc'.lang = doc.lang /\ doc'.voice = doc.voice]_vars

\* a document constructed with a language of its own, after add_* and build()
C16_Witness ==
    /\ args = [voice |-> "en-US-AriaNeural", lang |-> Some("fr-FR")]
    /\ Len(history) = 2
    /\ history[1].op = "add_sub" /\ history[2].op = "add_phoneme"
    /\ Len(outputs) = 2
    /\ doc.lang = "fr-FR" /\ doc.voice = "en-US-AriaNeural"

ArgStrings(call) ==
    LET optional == CASE call.op = "add_prosody" -> {2, 3, 4}
                      [] call.op = "add_say_as" -> {3}
                      [] OTHER -> {}
    IN  {call.args[k] : k \in (DOMAIN call.args) \ optional}
            \cup {call.args[k][1] : k \in {j \in optional : call.args[j] # None}}

\* the strings a fragment holds: its attribute values and its text
FragmentStrings(node) ==
    {node.attrs[k][2] : k \in DOMAIN node.attrs}
        \cup {node.children[k].attrs[1][2] : k \in DOMAIN node.children}

C23_AddAppendsOneFragment ==
    [][/\ Len(history') > Len(history) =>
            /\ Len(doc'.elements) = Len(doc.elements) + 1
            /\ SubSeq(doc'.elements, 1, Len(doc.elements)) = doc.elements
            /\ FragmentStrings(doc'.elements[Len(doc'.elements)])
                   = ArgStrings(history'[Len(history')])
            /\ history'[Len(history')].chained
       /\ outputs' # outputs =>
            Latest(outputs').text.root.children[1].children = doc.elements]_vars

\* a prosody fragment with rate "blurple", then a break: both are stored and
\* build() has written them in that order
C23_Witness ==
    /\ Len(history) = 2
    /\ history[1].op = "add_prosody" /\ history[1].args[2] = Some("blurple")
    /\ history[2].op = "add_break"
    /\ outputs # <<>> /\ Latest(outputs).at = 2
    /\ Latest(outputs).text.root.children[1].children[1].name = "prosody"
    /\ Latest(outputs).text.root.children[1].children[1].attrs = << <<"rate", "blurple">> >>
    /\ Latest(outputs).text.root.children[1].children[2].name = "break"

(***************************************************************************)
(* Obtaining a configuration: the four ways are tried in any order, any    *)
(* number of times, over a disk that holds a few configuration files.      *)
(***************************************************************************)
\* the most configuration files on the disk
MaxFiles == 2

\* the dictionaries tried: no key, good values, each constraint broken once,
\* the lowest values allowed, a key that is no field
ConfigDicts ==
    { <<>>,
      [max_concurrent |-> 5, batch_size |-> 10],
      [max_retries |-> -1],
      [timeout |-> 0],
      [default_voice |-> ""],
      [batch_size |-> 0],
      [max_concurrent |-> -1],
      [max_retries |-> 0, timeout |-> 1, batch_size |-> 1, max_concurrent |-> 1],
      [colour |-> "red", max_retries |-> 5],
      [colour |-> "red", timeout |-> -5] }

FileContents ==
    { Malformed,
      Holding([batch_size |-> 0]),
      Holding([colour |-> "red", max_concurrent |-> 8, batch_size |-> 20]) }

ConfigPaths ==
    {DEFAULT_CONFIG_PATHS[k] : k \in 1..Len(DEFAULT_CONFIG_PATHS)}
        \cup {"job.yml", "job.txt"}

FilesOn(files) == {path \in DOMAIN files : files[path] # Absent}

ConfigInit ==
    /\ disk \in {files \in [ConfigPaths -> FileContents \cup {Absent}] :
                    Cardinality(FilesOn(files)) <= MaxFiles}
    /\ request = [via |-> "none", path |-> None, values |-> <<>>]
    /\ config = None
    /\ raised = "none"
    /\ BatchUnused
    /\ BuilderUnused
    /\ CacheUnused
    /\ ValidatorUnused
    /\ PlayerUnused

\* one attempt and its outcome
Attempt(via, path, values, outcome) ==
    /\ request' = [via |-> via, path |-> path, values |-> values]
    /\ config' = outcome.config
    /\ raised' = outcome.raised
    /\ UNCHANGED disk

\* TTSConfig(...) called with keywords that are fields
Construct ==
    \E kwargs \in {d \in ConfigDicts : DOMAIN d \subseteq Fields} :
        Attempt("TTSConfig", None, kwargs, TTSConfig(kwargs))

FromDict ==
    \E config_dict \in ConfigDicts :
        Attempt("from_dict", None, config_dict, from_dict(config_dict))

FromFile ==
    \E file_path \in ConfigPaths :
        Attempt("from_file", Some(file_path), <<>>, from_file(disk, file_path))

LoadConfig ==
    \E config_path \in {None, Some("")} \cup {Some(path) : path \in ConfigPaths} :
        Attempt("load_config", config_path, <<>>, load_config(disk, config_path))

ConfigNext ==
    \/ Construct /\ UNCHANGED <<batchVars, builderVars, cacheVars, validatorVars, playerVars>>
    \/ FromDict /\ UNCHANGED <<batchVars, builderVars, cacheVars, validatorVars, playerVars>>
    \/ FromFile /\ UNCHANGED <<batchVars, builderVars, cacheVars, validatorVars, playerVars>>
    \/ LoadConfig /\ UNCHANGED <<batchVars, builderVars, cacheVars, validatorVars, playerVars>>

SpecConfig == ConfigInit /\ [][ConfigNext]_vars

(***************************************************************************)
(* Vocabulary of the configuration properties.                             *)
(***************************************************************************)
\* the file an attempt reads ("": none)
FileRead ==
    IF Truthy(request.path) THEN request.path[1]
    ELSE IF request.via = "load_config"
            /\ \E k \in 1..Len(DEFAULT_CONFIG_PATHS) : disk[DEFAULT_CONFIG_PATHS[k]] # Absent
    THEN LET k == CHOOSE m \in 1..Len(DEFAULT_CONFIG_PATHS) :
                      /\ disk[DEFAULT_CONFIG_PATHS[m]] # Absent
                      /\ \A o \in 1..(m - 1) : disk[DEFAULT_CONFIG_PATHS[o]] = Absent
         IN  DEFAULT_CONFIG_PATHS[k]
    ELSE ""

\* the values an attempt is made with: those passed, or those of the file read
ValuesGiven ==
    IF request.via \in {"TTSConfig", "from_dict"} THEN request.values
    ELSE IF FileRead # "" /\ disk[FileRead].kind = "dict" THEN disk[FileRead].data
    ELSE <<>>

Given(key) == key \in DOMAIN ValuesGiven

\* the values given break a constraint
Violating ==
    \/ Given("max_retries") /\ ValuesGiven["max_retries"] < 0
    \/ Given("timeout") /\ ValuesGiven["timeout"] <= 0
    \/ Given("batch_size") /\ ValuesGiven["batch_size"] <= 0
    \/ Given("max_concurrent") /\ ValuesGiven["max_concurrent"] <= 0
    \/ Given("default_voice") /\ ValuesGiven["default_voice"] = ""

(***************************************************************************)
(* C18.  A TTSConfig obtained by construction, from_dict, from_file or     *)
(* load_config has max_retries >= 0, timeout > 0, batch_size > 0,          *)
(* max_concurrent > 0 and a non-empty default_voice; an attempt with       *)
(* values that break one of these raises ValueError and gives no           *)
(* TTSConfig; and no attempt both raises and gives a TTSConfig.            *)
(***************************************************************************)
C18_ConfigValidOrValueError ==
    /\ config # None =>
          /\ config[1].max_retries >= 0
          /\ config[1].timeout > 0
          /\ config[1].batch_size > 0
          /\ config[1].max_concurrent > 0
          /\ config[1].default_voice # ""
          /\ raised = "none"
    /\ (request.via # "none" /\ Violating) => (raised = "ValueError" /\ config = None)
    /\ (request.via # "none" /\ config = None) => raised # "none"

\* the first default file that exists breaks a constraint, a later one is good
C18_Witness ==
    /\ request.via = "load_config" /\ request.path = None
    /\ disk["./tts_config.json"] = Absent
    /\ disk["./tts_config.yaml"] = Holding([batch_size |-> 0])
    /\ disk["~/.tts/config.json"] = Holding([colour |-> "red", max_concurrent |-> 8, batch_size |-> 20])
    /\ raised = "ValueError" /\ config = None

(***************************************************************************)
(* The voice queries of one client, made one after another as hello_tts.py *)
(* and utils.py make them, while the remote catalog may change and may     *)
(* fail to answer.                                                         *)
(***************************************************************************)
\* the most calls made on the client
MaxCalls == 3

\* the entries of edge_tts.list_voices() the remote catalog is made of
RemoteVoice ==
    [Aria |-> [ShortName |-> "en-US-AriaNeural", FriendlyName |-> "Aria",
               Locale |-> "en-US", Gender |-> "Female"],
     Sonia |-> [ShortName |-> "en-GB-SoniaNeural", FriendlyName |-> "Sonia",
                Locale |-> "en-GB", Gender |-> "Female"],
     Henri |-> [ShortName |-> "fr-FR-HenriNeural", FriendlyName |-> "Henri",
                Locale |-> "fr-FR", Gender |-> "Male"]]

\* what the remote catalog may hold
RemoteCatalogs ==
    { <<>>, <<RemoteVoice.Aria, RemoteVoice.Henri>>,
      <<RemoteVoice.Aria, RemoteVoice.Sonia, RemoteVoice.Henri>> }

QueryLanguages == {"en", "fr-FR"}

CacheInit ==
    /\ _voices_cache = None
    /\ catalog \in RemoteCatalogs
    /\ voiceLog = <<>>
    /\ BatchUnused
    /\ BuilderUnused
    /\ ConfigUnused
    /\ ValidatorUnused
    /\ PlayerUnused

\* one call on the client and what it gave
Queried(method, language, query) ==
    /\ Len(voiceLog) < MaxCalls
    /\ _voices_cache' = query.cache
    /\ voiceLog' = Append(voiceLog, [method |-> method, language |-> language,
                                     contacted |-> query.contacted,
                                     raised |-> query.raised, value |-> query.value])
    /\ UNCHANGED catalog

ListVoices ==
    \E answer \in {None, Some(catalog)} :
        Queried("list_voices", "", list_voices(_voices_cache, answer))

GetVoicesByLanguage ==
    \E answer \in {None, Some(catalog)}, language \in QueryLanguages :
        Queried("get_voices_by_language", language,
                get_voices_by_language(_voices_cache, answer, language))

ClearVoiceCache ==
    Queried("clear_voice_cache", "",
            Query(clear_voice_cache(_voices_cache), FALSE, FALSE, <<>>))

\* voices are added to or withdrawn from the remote catalog
RemoteChanges ==
    /\ catalog' \in RemoteCatalogs \ {catalog}
    /\ UNCHANGED <<_voices_cache, voiceLog>>

CacheNext ==
    \/ ListVoices /\ UNCHANGED <<batchVars, builderVars, configVars, validatorVars, playerVars>>
    \/ GetVoicesByLanguage /\ UNCHANGED <<batchVars, builderVars, configVars, validatorVars, playerVars>>
    \/ ClearVoiceCache /\ UNCHANGED <<batchVars, builderVars, configVars, validatorVars, playerVars>>
    \/ RemoteChanges /\ UNCHANGED <<batchVars, builderVars, configVars, validatorVars, playerVars>>

SpecCache == CacheInit /\ [][CacheNext]_vars

(***************************************************************************)
(* Vocabulary of the voice cache properties.                               *)
(***************************************************************************)
IsQuery(k) == voiceLog[k].method \in {"list_voices", "get_voices_by_language"}

\* call j is a list_voices that succeeded, and no clear_voice_cache lies
\* between it and call k
FilledBy(j, k) ==
    /\ j < k
    /\ voiceLog[j].method = "list_voices" /\ ~voiceLog[j].raised
    /\ \A m \in (j + 1)..(k - 1) : voiceLog[m].method # "clear_voice_cache"

\* what call k gives from the list call j returned
FromList(k, voices) ==
    IF voiceLog[k].method = "list_voices" THEN voices
    ELSE SelectSeq(voices, LAMBDA voice : InLanguage(voice, voiceLog[k].language))

(***************************************************************************)
(* C19.  After a list_voices call that succeeded, every later list_voices  *)
(* or get_voices_by_language call made before a clear_voice_cache gives    *)
(* the catalog that call returned (filtered by its language) and does not  *)
(* contact the remote catalog; a list_voices call that fails leaves the    *)
(* cache empty, and the next query contacts the remote catalog again.      *)
(***************************************************************************)
C19_CacheKeptUntilCleared ==
    \A k \in 1..Len(voiceLog) :
        /\ IsQuery(k) =>
              \A j \in 1..(k - 1) :
                  FilledBy(j, k) =>
                      /\ ~voiceLog[k].contacted
                      /\ ~voiceLog[k].raised
                      /\ voiceLog[k].value = FromList(k, voiceLog[j].value)
        /\ (voiceLog[k].method = "list_voices" /\ voiceLog[k].raised) =>
              /\ k = Len(voiceLog) => _voices_cache = None
              /\ (k < Len(voiceLog) /\ IsQuery(k + 1)) => voiceLog[k + 1].contacted

\* the catalog is listed, the remote catalog changes, and a query by language
\* still gives the voices of the list fetched first
C19_Witness ==
    /\ Len(voiceLog) = 3
    /\ voiceLog[1].method = "list_voices" /\ voiceLog[1].raised
    /\ voiceLog[2].method = "list_voices" /\ voiceLog[2].value = VoiceList(<<RemoteVoice.Aria, RemoteVoice.Henri>>)
    /\ voiceLog[3].method = "get_voices_by_language" /\ voiceLog[3].language = "en"
    /\ voiceLog[3].value = VoiceList(<<RemoteVoice.Aria>>)
    /\ catalog = <<RemoteVoice.Aria, RemoteVoice.Sonia, RemoteVoice.Henri>>

(***************************************************************************)
(* The validator on markup written by hand: one string is passed to        *)
(* SSMLValidator.validate.                                                 *)
(***************************************************************************)
\* the most child elements of the root element
MaxElements == 2

\* the elements a document is made of: values inside and outside the domains,
\* a say-as without interpret-as, and bad values two levels further down
ElementPool ==
    { Elem("prosody", << <<"rate", "slow">> >>, <<>>),
      Elem("prosody", << <<"rate", "blurple">>, <<"pitch", "+2st">> >>, <<>>),
      Elem("prosody", << <<"pitch", "9">>, <<"volume", "11">> >>, <<>>),
      Elem("emphasis", << <<"level", "loud">> >>, <<>>),
      Elem("break", << <<"time", "500ms">> >>, <<>>),
      Elem("break", << <<"time", "5">>, <<"strength", "weak">> >>, <<>>),
      Elem("say-as", <<>>, <<>>),
      Elem("p", <<>>,
           << Elem("prosody", << <<"rate", "80%">>, <<"volume", "blurple">> >>,
                   << Elem("break", << <<"strength", "5">> >>, <<>>) >>) >>) }

\* what the create_* methods of TTSClient return when rate, pitch, volume,
\* emphasis_level and break_time are left at their defaults
CreatedMarkups ==
    UNION { { create_ssml("hello", voice, "0%", "0%", "100%"),
              create_emphasis_ssml("hello", voice, "moderate"),
              create_break_ssml(<<"hello", "world">>, voice, "1s") } :
            voice \in {"en-US-AriaNeural", "x"} }

\* the strings passed: two that are no XML document, the markup TTSClient
\* creates, and documents with any root name, with and without version and xmlns, with up to MaxElements
\* elements of the pool under the root
Markups ==
    {PlainText, LoneSurrogate} \cup CreatedMarkups \cup
    { [wellformed |-> TRUE, root |-> Elem(name, version \o xmlns, children)] :
        name \in {"speak", "p"},
        version \in {<<>>, << <<"version", "1.0">> >>},
        xmlns \in {<<>>, << <<"xmlns", SynthesisNamespace>> >>},
        children \in UNION {[1..n -> ElementPool] : n \in 0..MaxElements} }

ValidatorInit ==
    /\ markup \in Markups
    /\ verdict = None
    /\ BatchUnused
    /\ BuilderUnused
    /\ ConfigUnused
    /\ CacheUnused
    /\ PlayerUnused

\* SSMLValidator.validate(markup): only ET.ParseError is caught
ValidateMarkup ==
    /\ verdict = None
    \* fromstring feeds the str to expat as UTF-8: ParseError comes from
    \* expat, UnicodeEncodeError from the encoding, before expat sees anything
    /\ verdict' = IF markup # LoneSurrogate
                  THEN Some([raised |-> "none", errors |-> validate(markup)])
                  ELSE Some([raised |-> "UnicodeEncodeError", errors |-> <<>>])
    /\ UNCHANGED markup

ValidatorNext ==
    ValidateMarkup /\ UNCHANGED <<batchVars, builderVars, configVars, cacheVars, playerVars>>

SpecValidator == ValidatorInit /\ [][ValidatorNext]_vars

(***************************************************************************)
(* Vocabulary of the validator properties.                                 *)
(***************************************************************************)
\* validate has been called on the markup
Checked == verdict # None

\* the diagnostics the call returned
Diagnostics == verdict[1].errors

\* the diagnostics about the root element
RootDiagnostics ==
    SelectSeq(Diagnostics,
              LAMBDA d : d \in {"Root element must be <speak>",
                                "Missing version attribute in <speak> element",
                                "Missing xmlns attribute in <speak> element"})

\* the diagnostics about an attribute value
ValueDiagnostics == SelectSeq(Diagnostics, LAMBDA d : SubSeq(d, 1, 8) = "Invalid ")

\* the root element as written carries the attribute
Written(key) == \E k \in DOMAIN markup.root.attrs : markup.root.attrs[k][1] = key

\* the value domains of the checked attributes
InDomain(tag, key, value) ==
    CASE tag = "prosody" /\ key = "rate" ->
            \/ value \in {"x-slow", "slow", "medium", "fast", "x-fast"}
            \/ endswith(value, "%") \/ endswith(value, "Hz")
      [] tag = "prosody" /\ key = "pitch" ->
            \/ value \in {"x-low", "low", "medium", "high", "x-high"}
            \/ endswith(value, "Hz") \/ endswith(value, "st")
      [] tag = "prosody" /\ key = "volume" ->
            \/ value \in {"silent", "x-soft", "soft", "medium", "loud", "x-loud"}
            \/ endswith(value, "dB")
      [] tag = "emphasis" /\ key = "level" -> value \in {"strong", "moderate", "reduced"}
      [] tag = "break" /\ key = "time" -> endswith(value, "s") \/ endswith(value, "ms")
      [] tag = "break" /\ key = "strength" ->
            value \in {"none", "x-weak", "weak", "medium", "strong", "x-strong"}
      [] OTHER -> TRUE

\* the checked attributes an element carries, as <<element, attribute, value>>
CheckedOn(node) ==
    {<<node.name, node.attrs[k][1], node.attrs[k][2]>> : k \in
        {j \in DOMAIN node.attrs :
            \/ node.name = "prosody" /\ node.attrs[j][1] \in {"rate", "pitch", "volume"}
            \/ node.name = "emphasis" /\ node.attrs[j][1] = "level"
            \/ node.name = "break" /\ node.attrs[j][1] \in {"time", "strength"}}}

\* the elements of the document, at every depth
RECURSIVE Elements(_)
Elements(node) ==
    {node} \cup UNION {Elements(node.children[k]) : k \in DOMAIN node.children}

\* the number of attribute values outside their domain in the whole document
RECURSIVE OutOfDomainValues(_)
OutOfDomainValues(node) ==
    LET own == Cardinality({a \in CheckedOn(node) : ~InDomain(a[1], a[2], a[3])})
        RECURSIVE Below(_)
        Below(k) == IF k > Len(node.children) THEN 0
                    ELSE OutOfDomainValues(node.children[k]) + Below(k + 1)
    IN  own + Below(1)

\* the diagnostic is about the value of the attribute of the element
Names(diagnostic, a) ==
    /\ Mentions(diagnostic, a[1])
    /\ Mentions(diagnostic, a[2])
    /\ endswith(diagnostic, ": " \o a[3])

(***************************************************************************)
(* C24.  For a string that cannot be parsed as XML, validate raises        *)
(* nothing and returns exactly one diagnostic, the parse error: no         *)
(* diagnostic of a root or element check is in the list.                   *)
(***************************************************************************)
C24_ParseFailureIsOneDiagnostic ==
    (Checked /\ ~markup.wellformed) =>
        /\ verdict[1].raised = "none"
        /\ Diagnostics = <<"XML parsing error">>

(***************************************************************************)
(* C25.  For a string that parses, the root checks give no diagnostic when *)
(* the root element is written as speak with a version attribute and the   *)
(* namespace declaration, and exactly one diagnostic for each of: another  *)
(* root name, no version attribute, no namespace declaration.              *)
(***************************************************************************)
C25_RootChecks ==
    (Checked /\ markup.wellformed) =>
        LET range == {RootDiagnostics[k] : k \in DOMAIN RootDiagnostics}
        IN  /\ "Root element must be <speak>" \in range <=> markup.root.name # "speak"
            /\ "Missing version attribute in <speak> element" \in range
                    <=> ~Written("version")
            /\ "Missing xmlns attribute in <speak> element" \in range <=> ~Written("xmlns")
            /\ Len(RootDiagnostics) = Cardinality(range)

(***************************************************************************)
(* C26.  For a string that parses, every element at every depth is         *)
(* checked and nothing stops the checks: there are as many diagnostics     *)
(* about attribute values as there are attribute values outside their      *)
(* domain in the whole document, and each of these diagnostics names the   *)
(* value of an attribute that is outside its domain.                       *)
(***************************************************************************)
C26_CollectsAllDiagnostics ==
    (Checked /\ markup.wellformed) =>
        /\ Len(ValueDiagnostics) = OutOfDomainValues(markup.root)
        /\ \A k \in DOMAIN ValueDiagnostics :
              \E e \in Elements(markup.root) : \E a \in CheckedOn(e) :
                  ~InDomain(a[1], a[2], a[3]) /\ Names(ValueDiagnostics[k], a)

(***************************************************************************)
(* C27.  For a string that parses and each checked attribute written on a  *)
(* prosody, emphasis or break element, a diagnostic about that value is    *)
(* in the list if and only if the value is outside the domain of the       *)
(* attribute; an attribute that is not written gives no diagnostic.        *)
(***************************************************************************)
C27_DiagnosticIffOutOfDomain ==
    (Checked /\ markup.wellformed) =>
        /\ \A e \in Elements(markup.root) : \A a \in CheckedOn(e) :
              (\E k \in DOMAIN ValueDiagnostics : Names(ValueDiagnostics[k], a))
                  <=> ~InDomain(a[1], a[2], a[3])
        /\ \A k \in DOMAIN ValueDiagnostics :
              \E e \in Elements(markup.root) : \E a \in CheckedOn(e) :
                  Names(ValueDiagnostics[k], a)

(***************************************************************************)
(* C30.  Markup made by create_ssml, create_emphasis_ssml or               *)
(* create_break_ssml with the default rate, pitch, volume, emphasis level  *)
(* and break time passes the validation synthesize_ssml runs on it: the    *)
(* validator returns no diagnostic and _validate_ssml does not raise.      *)
(***************************************************************************)
C30_CreatedMarkupIsAccepted ==
    (Checked /\ markup \in CreatedMarkups) =>
        /\ verdict[1].raised = "none"
        /\ Diagnostics = <<>>
        /\ ~_validate_ssml_raises(markup)

(***************************************************************************)
(* The audio player (audio_player.py): play_file with its fallback and     *)
(* play_audio_data with its temporary file.                                *)
(***************************************************************************)
\* the most calls made on one player
MaxPlays == 2

\* AudioError(message)
AudioError(message) == [type |-> "AudioError", message |-> message]

\* AudioPlayer(preferred_backend) on a machine where the modules of `installed'
\* can be imported: _detect_backends lists pygame before playsound
AudioPlayer(preferred_backend, installed) ==
    [preferred_backend |-> preferred_backend,
     _available_backends |-> SelectSeq(<<"pygame", "playsound">>, LAMBDA b : b \in installed)]

\* the backend play_file selects: the preferred one when it is available,
\* otherwise pygame before playsound
_get_backend_to_use(self) ==
    LET available == {self._available_backends[k] : k \in DOMAIN self._available_backends}
    IN  IF Truthy(self.preferred_backend) /\ self.preferred_backend[1] \in available
        THEN self.preferred_backend[1]
        ELSE IF "pygame" \in available THEN "pygame" ELSE "playsound"

\* _play_with_pygame / _play_with_playsound: None when the file was played,
\* otherwise the AudioError the backend's failure is wrapped into
_play_with(backend, failing) ==
    IF backend \notin failing THEN None
    ELSE IF backend = "pygame" THEN Some(AudioError("Pygame playback failed"))
    ELSE Some(AudioError("Playsound playback failed"))

\* play_file(filename): what it raises (None when it returns) and the
\* backends it tried, in order, each with whether it played the file.  An
\* AudioError of the selected backend starts one attempt with the first other
\* available backend; whatever that attempt does, the handler ends with
\* `raise'.
play_file(self, filename, existing, failing) ==
    IF filename \notin existing
    THEN [raised |-> Some(AudioError("Audio file not found")), attempts |-> <<>>]
    ELSE LET backend == _get_backend_to_use(self)
             first == [backend |-> backend, played |-> _play_with(backend, failing) = None]
             fallback_backends == SelectSeq(self._available_backends, LAMBDA b : b # backend)
         IN  IF first.played THEN [raised |-> None, attempts |-> <<first>>]
             ELSE [raised |-> _play_with(backend, failing),
                   attempts |->
                       IF fallback_backends = <<>> THEN <<first>>
                       ELSE <<first,
                              [backend |-> fallback_backends[1],
                               played |-> _play_with(fallback_backends[1], failing) = None]>>]

\* play_audio_data(audio_data, format_hint) as the call-th call on a machine
\* where the temporary file fails at `fault': what it raises, the backends
\* tried, the temporary file it created and the files that exist afterwards.
\* NamedTemporaryFile gives every call a name of its own.
\* temp_filename is bound after write returned, and the cleanup removes the
\* file only when temp_filename is bound.
play_audio_data(self, audio_data, format_hint, call, fault, existing, failing) ==
    LET name == "tmp" \o ToString(call) \o "." \o format_hint
        created == existing \cup {name}
        played == play_file(self, name, created, failing)
        bound == fault \notin {"create", "write"}
        cleaned == IF bound /\ fault # "unlink" THEN created \ {name} ELSE created
        failed(message) ==
            Some(AudioError("Failed to play audio data: " \o message))
    IN  IF audio_data = ""
        THEN [raised |-> Some(AudioError("No audio data provided")), attempts |-> <<>>,
              temp |-> None, storage |-> existing]
        ELSE IF fault = "create"
        THEN [raised |-> failed("OSError"), attempts |-> <<>>,
              temp |-> None, storage |-> existing]
        ELSE IF fault \in {"write", "close"}
        THEN [raised |-> failed("OSError"), attempts |-> <<>>,
              temp |-> Some(name), storage |-> cleaned]
        ELSE [raised |-> IF played.raised = None THEN None
                         ELSE failed(played.raised[1].message),
              attempts |-> played.attempts,
              temp |-> Some(name), storage |-> cleaned]

\* the machines: which of the two modules can be imported (at least one, or
\* the constructor raises), which backends fail to play, and the preference
\* passed to the constructor
PlayerInit ==
    /\ \E installed \in (SUBSET {"pygame", "playsound"}) \ {{}} :
       \E preferred_backend \in {None, Some("pygame"), Some("playsound"), Some("vlc")} :
          player = AudioPlayer(preferred_backend, installed)
    /\ broken \in SUBSET {"pygame", "playsound"}
    /\ storage = {"hello.mp3"}
    /\ playLog = <<>>
    /\ BatchUnused
    /\ BuilderUnused
    /\ ConfigUnused
    /\ CacheUnused
    /\ ValidatorUnused

\* player.play_file(filename)
PlayFile ==
    /\ Len(playLog) < MaxPlays
    /\ \E filename \in {"hello.mp3", "missing.mp3"} :
          LET out == play_file(player, filename, storage, broken)
          IN  playLog' = Append(playLog,
                  [method |-> "play_file", filename |-> filename, fault |-> "none",
                   raised |-> out.raised, attempts |-> out.attempts, temp |-> None])
    /\ UNCHANGED <<player, broken, storage>>

\* player.play_audio_data(audio_data); the temporary file can fail in
\* NamedTemporaryFile, in write, at the flush when the file is closed, or in
\* os.unlink
PlayAudioData ==
    /\ Len(playLog) < MaxPlays
    /\ \E audio_data \in {"", "ID3"} : \E fault \in {"none", "create", "write", "close", "unlink"} :
          LET out == play_audio_data(player, audio_data, "mp3", Len(playLog) + 1,
                                     fault, storage, broken)
          IN  /\ playLog' = Append(playLog,
                     [method |-> "play_audio_data", filename |-> audio_data, fault |-> fault,
                      raised |-> out.raised, attempts |-> out.attempts, temp |-> out.temp])
              /\ storage' = out.storage
    /\ UNCHANGED <<player, broken>>

PlayerNext ==
    \/ PlayFile /\ UNCHANGED <<batchVars, builderVars, configVars, cacheVars, validatorVars>>
    \/ PlayAudioData /\ UNCHANGED <<batchVars, builderVars, configVars, cacheVars, validatorVars>>

SpecPlayer == PlayerInit /\ [][PlayerNext]_vars

(***************************************************************************)
(* Vocabulary of the player properties.                                    *)
(***************************************************************************)
\* the calls of play_file in which the selected backend failed to play an
\* existing file while another backend was available
FallbackCalls ==
    { k \in DOMAIN playLog :
        /\ playLog[k].method = "play_file"
        /\ playLog[k].attempts # <<>>
        /\ ~playLog[k].attempts[1].played
        /\ Len(player._available_backends) > 1 }

\* the first available backend other than the one tried first in call k
FirstOther(k) ==
    SelectSeq(player._available_backends,
              LAMBDA b : b # playLog[k].attempts[1].backend)[1]

(***************************************************************************)
(* C28.  When the selected backend fails and another backend is            *)
(* available, play_file tries the first other backend exactly once; it     *)
(* returns normally if that backend plays the file, and if that backend    *)
(* fails too it raises the selected backend's original error.              *)
(***************************************************************************)
C28_FallbackPlaysOrOriginalError ==
    \A k \in FallbackCalls :
        /\ Len(playLog[k].attempts) = 2
        /\ playLog[k].attempts[2].backend = FirstOther(k)
        /\ playLog[k].attempts[2].played => playLog[k].raised = None
        /\ ~playLog[k].attempts[2].played =>
               playLog[k].raised = _play_with(playLog[k].attempts[1].backend, broken)

(***************************************************************************)
(* C29.  Whenever play_audio_data returns or raises (write failure,        *)
(* playback failure, success), the temporary file it created no longer     *)
(* exists, and a failure of the cleanup itself is never propagated.        *)
(***************************************************************************)
C29_TempFileIsReleased ==
    \A k \in DOMAIN playLog :
        (playLog[k].method = "play_audio_data" /\ playLog[k].temp # None) =>
            /\ playLog[k].fault # "unlink" => playLog[k].temp[1] \notin storage
            /\ playLog[k].fault = "unlink" =>
                   playLog[k].raised =
                       play_audio_data(player, playLog[k].filename, "mp3", k, "none",
                                       {}, broken).raised

====
